---- MODULE Spec2Model ----
(***************************************************************************)
(* Guitar pedagogy widgets: the scale/tab position generator (tab.js), the  *)
(* note finder (note-finder.js) and the note quiz session (note-quiz.js).  *)
(*                                                                         *)
(* Note names are modelled as sequences of one-character strings, so that  *)
(* trimming, whitespace removal and case folding act on characters.        *)
(***************************************************************************)
EXTENDS Integers, Sequences, FiniteSets, TLC

VARIABLES
    \* ---- tab page (tab.js): the selects of renderApp and what it generated
    tabKey,        \* keySelect.value
    tabScale,      \* scaleSelect.value
    tabPhase,      \* "selected" | "boxes" | "positions"
    tabBoxes,      \* result of generateAllMinorPentBoxes
    tabPositions,  \* result of generate3NPSPositionsForScale
    tabBases,      \* results of pickBaseFretForBox, one per template
    tabRun,        \* result of buildScaleMidiSequence
    tabNotes,      \* result of generateTabForScale
    tabError,      \* message of the Error raised, "" when none was
    \* ---- note finder (note-finder.js)
    clickX,        \* staff click, in the coordinates of the drawing
    clickY,
    hitMidi,       \* what hitTestStaffToMidi returned for it, NoPitch for null
    currentMidi,   \* the pitch selected, NoPitch for null
    noteName,      \* text of #noteName
    noteInfo,      \* the MIDI number and octave shown in #noteInfo
    finderPhase,   \* "loaded" | "clicked" | "displayed"
    \* ---- quiz page (note-quiz.js): the fields of quizState
    questions,     \* sequence of [stringIdx, fret, midi, answerNames]
    current,
    score,
    timeElapsed,
    timerInterval, \* 0 for null, else the id setInterval returned
    accepting,
    highScores,    \* sequence of [name, score, date]
    \* ---- quiz page: timers, storage and the DOM
    liveIntervals, \* ids of the intervals set and not cleared
    pendingAdvance,\* number of auto-advance callbacks set and not yet run
    localStorage,  \* the item "noteQuizHighScores"
    stringRange,   \* select values read by the last startQuiz
    fretRange,
    acceptFlats,   \* checkbox states read by the last startQuiz/submitAnswer
    acceptSharps,
    noteInput,     \* text of the answer field
    feedback,      \* text of the feedback line
    panelShown,    \* highScoresPanel.style.display = "block"
    \* ---- quiz page: history of the run
    lastEvent,     \* the handler that ran last and whether it raised
    answered,      \* indices of the questions scored, in order, in this session
    ended,         \* runs of endQuiz in this session
    starts,        \* calls of startQuiz
    \* ---- tab page: one call of chooseBestPosition
    walkPrev,      \* its argument prev, NullPosition for null
    walkCandidates,\* its argument candidates
    walkChosen,    \* what it returned
    \* ---- chord note finder (note-finder.js)
    chordSelections,  \* stringIdx 0..5 -> the note selected on it, or none
    chordIsPlaying,   \* isPlaying
    oscillators,      \* AudioEngine: pitches of the oscillators started, not stopped
    playDisabled,     \* playBtn.disabled
    chordEvent,       \* the handler that ran last
    \* ---- tab page: the sequence player (AudioEngine of tab.js)
    playerIsPlaying,  \* isPlaying
    playbackTimer,    \* 0 for null, else the id setTimeout returned
    pendingTimers,    \* ids of the timeouts set, not fired and not cleared
    timersSet,        \* calls of setTimeout
    currentSequence,
    currentIndex,
    startedNotes,     \* notes given to playNote since the last playSequence
    playerEvent       \* the call that ran last

tabVars == <<tabKey, tabScale, tabPhase, tabBoxes, tabPositions, tabBases,
             tabRun, tabNotes, tabError>>

finderVars == <<clickX, clickY, hitMidi, currentMidi, noteName, noteInfo,
                finderPhase>>

quizVars == <<questions, current, score, timeElapsed, timerInterval, accepting,
              highScores, liveIntervals, pendingAdvance, localStorage, stringRange,
              fretRange, acceptFlats, acceptSharps, noteInput, feedback,
              panelShown, lastEvent, answered, ended, starts>>

walkVars == <<walkPrev, walkCandidates, walkChosen>>

chordVars == <<chordSelections, chordIsPlaying, oscillators, playDisabled, chordEvent>>

playerVars == <<playerIsPlaying, playbackTimer, pendingTimers, timersSet,
                currentSequence, currentIndex, startedNotes, playerEvent>>

vars == <<tabVars, finderVars, quizVars, walkVars, chordVars, playerVars>>

\* ------------------------------------------------------------------------
\* Generic helpers
\* ------------------------------------------------------------------------

Max(a, b) == IF a >= b THEN a ELSE b
Min(a, b) == IF a <= b THEN a ELSE b

\* Array.prototype.reverse
Reverse(s) == [i \in 1..Len(s) |-> s[Len(s) + 1 - i]]

\* arr.slice(0, -1)
DropLast(s) == SubSeq(s, 1, Len(s) - 1)

\* arr.slice(0, n)
Take(s, n) == SubSeq(s, 1, Min(n, Len(s)))

Range(s) == {s[i] : i \in 1..Len(s)}

SetMin(S) == CHOOSE x \in S : \A y \in S : x <= y
SetMax(S) == CHOOSE x \in S : \A y \in S : x >= y

\* ------------------------------------------------------------------------
\* tab.js: constants
\* ------------------------------------------------------------------------

FRET_MAX == 24

\* { 6: 40, 5: 45, 4: 50, 3: 55, 2: 59, 1: 64 }
STRING_OPEN_MIDI == [s \in 1..6 |->
    CASE s = 6 -> 40 [] s = 5 -> 45 [] s = 4 -> 50
      [] s = 3 -> 55 [] s = 2 -> 59 [] s = 1 -> 64]

PC_NAMES_SHARP == <<
    <<"C">>, <<"C", "#">>, <<"D">>, <<"D", "#">>, <<"E">>, <<"F">>,
    <<"F", "#">>, <<"G">>, <<"G", "#">>, <<"A">>, <<"A", "#">>, <<"B">> >>

Keys == Range(PC_NAMES_SHARP)

\* PC_TO_INDEX[name]: the index of name in PC_NAMES_SHARP (0-based)
PC_TO_INDEX == [k \in Keys |-> (CHOOSE i \in 1..12 : PC_NAMES_SHARP[i] = k) - 1]

KEY_TO_SEMITONE_FROM_E == [k \in Keys |->
    CASE k = <<"C">> -> 8       [] k = <<"C", "#">> -> 9
      [] k = <<"D">> -> 10      [] k = <<"D", "#">> -> 11
      [] k = <<"E">> -> 0       [] k = <<"F">> -> 1
      [] k = <<"F", "#">> -> 2  [] k = <<"G">> -> 3
      [] k = <<"G", "#">> -> 4  [] k = <<"A">> -> 5
      [] k = <<"A", "#">> -> 6  [] k = <<"B">> -> 7]

ScaleNames == {
    "Major", "Minor", "Melodic Minor", "Harmonic Minor", "Major Pentatonic",
    "Minor Pentatonic", "Blues", "Rock 'n' roll", "Ionian", "Dorian",
    "Phrygian", "Lydian", "Mixolydian", "Aeolian", "Locrian", "Dorian Bebop",
    "Mixolydian Bebop", "Whole Tone", "Half Whole Diminished",
    "Whole Half Diminished", "Spanish Major", "Persian", "Gypsy Major"}

SCALE_DEFINITIONS == [n \in ScaleNames |->
    CASE n = "Major" -> <<0,2,4,5,7,9,11>>
      [] n = "Minor" -> <<0,2,3,5,7,8,10>>
      [] n = "Melodic Minor" -> <<0,2,3,5,7,9,11>>
      [] n = "Harmonic Minor" -> <<0,2,3,5,7,8,11>>
      [] n = "Major Pentatonic" -> <<0,2,4,7,9>>
      [] n = "Minor Pentatonic" -> <<0,3,5,7,10>>
      [] n = "Blues" -> <<0,3,5,6,7,10>>
      [] n = "Rock 'n' roll" -> <<0,3,4,5,7,9,10>>
      [] n = "Ionian" -> <<0,2,4,5,7,9,11>>
      [] n = "Dorian" -> <<0,2,3,5,7,9,10>>
      [] n = "Phrygian" -> <<0,1,3,5,7,8,10>>
      [] n = "Lydian" -> <<0,2,4,6,7,9,11>>
      [] n = "Mixolydian" -> <<0,2,4,5,7,9,10>>
      [] n = "Aeolian" -> <<0,2,3,5,7,8,10>>
      [] n = "Locrian" -> <<0,1,3,5,6,8,10>>
      [] n = "Dorian Bebop" -> <<0,2,3,5,7,9,10,11>>
      [] n = "Mixolydian Bebop" -> <<0,2,4,5,7,9,10,11>>
      [] n = "Whole Tone" -> <<0,2,4,6,8,10>>
      [] n = "Half Whole Diminished" -> <<0,1,3,4,6,7,9,10>>
      [] n = "Whole Half Diminished" -> <<0,2,3,5,6,8,9,11>>
      [] n = "Spanish Major" -> <<0,1,4,5,7,8,10>>
      [] n = "Persian" -> <<0,1,4,5,6,8,11>>
      [] n = "Gypsy Major" -> <<0,2,3,6,7,8,10>>]

\* One template's frets object: string number -> the two fret offsets
BoxFrets(f6, f5, f4, f3, f2, f1) == [s \in 1..6 |->
    CASE s = 6 -> f6 [] s = 5 -> f5 [] s = 4 -> f4
      [] s = 3 -> f3 [] s = 2 -> f2 [] s = 1 -> f1]

MIN_PENT_BOX_TEMPLATES == <<
    [id |-> 1, frets |-> BoxFrets(<<0,3>>, <<0,2>>, <<0,2>>, <<0,2>>, <<0,3>>, <<0,3>>)],
    [id |-> 2, frets |-> BoxFrets(<<3,5>>, <<2,5>>, <<2,5>>, <<2,5>>, <<3,5>>, <<3,5>>)],
    [id |-> 3, frets |-> BoxFrets(<<5,7>>, <<5,7>>, <<5,7>>, <<5,7>>, <<5,8>>, <<5,8>>)],
    [id |-> 4, frets |-> BoxFrets(<<7,10>>, <<7,10>>, <<7,9>>, <<7,9>>, <<8,10>>, <<8,10>>)],
    [id |-> 5, frets |-> BoxFrets(<<10,12>>, <<9,12>>, <<9,12>>, <<9,12>>, <<10,12>>, <<10,12>>)] >>

\* ------------------------------------------------------------------------
\* tab.js: helpers
\* ------------------------------------------------------------------------

clampFret(f) == Max(0, Min(FRET_MAX, f))

\* ((midi % 12) + 12) % 12 with JavaScript's truncating remainder
JsRem(a, b) == IF a >= 0 THEN a % b ELSE -((-a) % b)

PitchClass(midi) == JsRem(JsRem(midi, 12) + 12, 12)

midiToPcName(midi) == PC_NAMES_SHARP[PitchClass(midi) + 1]

\* Every string taken for the low E string
isRootForKey_LowE(string, fret, keyName) ==
    midiToPcName(STRING_OPEN_MIDI[6] + fret) = keyName

isRootForKey(string, fret, keyName) ==
    midiToPcName(STRING_OPEN_MIDI[string] + fret) = keyName

pickLowERootFret(keyName) == KEY_TO_SEMITONE_FROM_E[keyName] % 12

\* ------------------------------------------------------------------------
\* tab.js: the exact two-octave run and its fingering
\* ------------------------------------------------------------------------

Abs(n) == IF n < 0 THEN -n ELSE n

\* uniqUp: up without the elements equal to the one pushed before them
RECURSIVE UniqAdjacent(_)
UniqAdjacent(up) ==
    IF up = <<>> THEN <<>>
    ELSE LET uniqUp == UniqAdjacent(DropLast(up))
             m      == up[Len(up)]
         IN IF uniqUp = <<>> \/ uniqUp[Len(uniqUp)] # m THEN Append(uniqUp, m)
            ELSE uniqUp

\* buildScaleMidiSequence closing the run one octave above the root
buildScaleMidiSequence_OneOctaveTop(rootPcName, intervals) ==
    LET rootMidi == STRING_OPEN_MIDI[6] + pickLowERootFret(rootPcName)
        n        == Len(intervals)
        up       == [k \in 1..(2 * n) |->
                        rootMidi + intervals[((k - 1) % n) + 1] + 12 * ((k - 1) \div n)]
                    \o <<rootMidi + 12>>
        uniqUp   == UniqAdjacent(up)
    IN [up |-> uniqUp, full |-> uniqUp \o Reverse(DropLast(uniqUp)),
        rootMidi |-> rootMidi]

\* For a key of the table (an unknown key raises "Unknown key")
buildScaleMidiSequence(rootPcName, intervals) ==
    LET rootMidi == STRING_OPEN_MIDI[6] + pickLowERootFret(rootPcName)
        n        == Len(intervals)
        up       == [k \in 1..(2 * n) |->
                        rootMidi + intervals[((k - 1) % n) + 1] + 12 * ((k - 1) \div n)]
                    \o <<rootMidi + 24>>
        uniqUp   == UniqAdjacent(up)
    IN [up |-> uniqUp, full |-> uniqUp \o Reverse(DropLast(uniqUp)),
        rootMidi |-> rootMidi]

\* The places of a pitch, from string 6 to string 1
\* Open strings left out: fret >= 1
allPositionsForMidi_NoOpenString(targetMidi) ==
    SelectSeq([i \in 1..6 |-> [string |-> 7 - i,
                               fret |-> targetMidi - STRING_OPEN_MIDI[7 - i]]],
              LAMBDA p : p.fret >= 1 /\ p.fret <= FRET_MAX)

allPositionsForMidi(targetMidi) ==
    SelectSeq([i \in 1..6 |-> [string |-> 7 - i,
                               fret |-> targetMidi - STRING_OPEN_MIDI[7 - i]]],
              LAMBDA p : p.fret >= 0 /\ p.fret <= FRET_MAX)

\* null, for prevPos before the first note and for an absent best position
NullPosition == [null |-> TRUE]

\* fretJump * 1.2 + stringJump * 2.2 + directionPenalty is computed in
\* IEEE-754 doubles.  For fretJump in 0..24, stringJump in 0..5 and
\* directionPenalty in {0, 2} the double computed is the double nearest to
\* the exact sum, or its neighbour one place below or above it: the triples
\* <<fretJump, stringJump, directionPenalty>> that come out below, and above.
CostRoundedBelow == {
    <<3,0,0>>, <<6,0,0>>, <<6,1,0>>, <<6,1,2>>, <<9,0,0>>, <<9,0,2>>,
    <<9,5,0>>, <<9,5,2>>, <<11,1,0>>, <<12,0,0>>, <<12,1,0>>, <<12,1,2>>,
    <<12,2,0>>, <<12,2,2>>, <<17,1,0>>, <<17,1,2>>, <<17,2,0>>, <<17,2,2>>,
    <<18,0,0>>, <<18,0,2>>, <<18,1,0>>, <<18,1,2>>, <<18,5,0>>, <<18,5,2>>,
    <<22,1,0>>, <<22,1,2>>, <<22,2,0>>, <<23,0,0>>, <<23,0,2>>, <<23,1,0>>,
    <<23,1,2>>, <<23,3,0>>, <<23,3,2>>, <<23,5,0>>, <<23,5,2>>, <<24,0,0>>,
    <<24,0,2>>, <<24,1,0>>, <<24,2,0>>, <<24,2,2>>, <<24,4,0>>, <<24,4,2>>}

CostRoundedAbove == {
    <<0,3,0>>, <<0,3,2>>, <<1,1,0>>, <<1,2,0>>, <<1,2,2>>, <<1,3,0>>,
    <<2,2,0>>, <<2,4,0>>, <<2,4,2>>, <<4,4,0>>, <<4,4,2>>, <<5,3,0>>,
    <<5,3,2>>, <<7,1,0>>, <<7,1,2>>, <<7,4,0>>, <<7,4,2>>, <<14,2,0>>,
    <<14,2,2>>, <<14,3,0>>, <<14,3,2>>, <<19,2,0>>, <<19,2,2>>, <<19,3,0>>,
    <<19,3,2>>}

\* The cost of candidate c after prev: <<exact sum in tenths, places off>>
Cost(prev, c) ==
    LET fretJump         == IF prev = NullPosition THEN 0 ELSE Abs(c.fret - prev.fret)
        stringJump       == IF prev = NullPosition THEN 0 ELSE Abs(c.string - prev.string)
        directionPenalty == IF prev = NullPosition THEN 0
                            ELSE IF c.string > prev.string THEN 2 ELSE 0
        t                == <<fretJump, stringJump, directionPenalty>>
    IN <<12 * fretJump + 22 * stringJump + 10 * directionPenalty,
         IF t \in CostRoundedBelow THEN -1
         ELSE IF t \in CostRoundedAbove THEN 1 ELSE 0>>

\* cost <= bestCost: a later candidate of equal cost replaces the best
CostLess_OrEqual(a, b) == a[1] < b[1] \/ (a[1] = b[1] /\ a[2] <= b[2])

\* cost < bestCost
CostLess(a, b) == a[1] < b[1] \/ (a[1] = b[1] /\ a[2] < b[2])

\* The loop of chooseBestPosition: the best of the candidates so far, which
\* a later candidate replaces only when its cost is less
RECURSIVE BestSoFar(_, _)
BestSoFar(prev, candidates) ==
    IF Len(candidates) = 1 THEN candidates[1]
    ELSE LET best == BestSoFar(prev, DropLast(candidates))
             c    == candidates[Len(candidates)]
         IN IF CostLess(Cost(prev, c), Cost(prev, best)) THEN c ELSE best

\* best || candidates[0], undefined for no candidate
chooseBestPosition(prev, candidates) ==
    IF candidates = <<>> THEN NullPosition ELSE BestSoFar(prev, candidates)

\* The loop of mapMidiToTabNotes over midiSeq: [notes, prevPos]
RECURSIVE MapNotes(_, _)
MapNotes(keyName, midiSeq) ==
    IF midiSeq = <<>> THEN [notes |-> <<>>, prevPos |-> NullPosition]
    ELSE LET before     == MapNotes(keyName, DropLast(midiSeq))
             midi       == midiSeq[Len(midiSeq)]
             candidates == allPositionsForMidi(midi)
             chosen     == chooseBestPosition(before.prevPos, candidates)
         IN IF candidates = <<>> THEN before
            ELSE [notes |-> Append(before.notes,
                                   [string |-> chosen.string, fret |-> chosen.fret,
                                    isRoot |-> midiToPcName(midi) = keyName]),
                  prevPos |-> chosen]

mapMidiToTabNotes(keyName, midiSeq) == MapNotes(keyName, midiSeq).notes

\* For a key of the table (an unknown key raises "Unknown key")
generateTabForScale(keyName, scaleName) ==
    IF scaleName \notin DOMAIN SCALE_DEFINITIONS THEN <<>>
    ELSE mapMidiToTabNotes(keyName,
             buildScaleMidiSequence(keyName, SCALE_DEFINITIONS[scaleName]).full)

\* ------------------------------------------------------------------------
\* tab.js: 3NPS positions
\* ------------------------------------------------------------------------

buildPcSetForScale(keyName, intervals) ==
    {(PC_TO_INDEX[keyName] + intervals[i]) % 12 : i \in 1..Len(intervals)}

\* Ascending sequence of the members of a finite set of integers
RECURSIVE AscSeq(_)
AscSeq(S) == IF S = {} THEN <<>>
             ELSE LET m == SetMin(S) IN <<m>> \o AscSeq(S \ {m})

fretsForStringPcSet(string, pcSet) ==
    AscSeq({f \in 0..FRET_MAX : ((STRING_OPEN_MIDI[string] + f) % 12) \in pcSet})

TabNote(s, f, keyName) == [string |-> s, fret |-> f, isRoot |-> isRootForKey(s, f, keyName)]

\* A window one fret too wide
WindowFrets_Wide(keyName, intervals, s, start) ==
    SelectSeq(fretsForStringPcSet(s, buildPcSetForScale(keyName, intervals)),
              LAMBDA f : f >= start /\ f <= start + 7)

\* A window of five frets
WindowFrets_Narrow(keyName, intervals, s, start) ==
    SelectSeq(fretsForStringPcSet(s, buildPcSetForScale(keyName, intervals)),
              LAMBDA f : f >= start /\ f <= start + 4)

\* The frets of string s inside the window [start, start + 6]
WindowFrets(keyName, intervals, s, start) ==
    SelectSeq(fretsForStringPcSet(s, buildPcSetForScale(keyName, intervals)),
              LAMBDA f : f >= start /\ f <= start + 6)

\* The inner loop over the strings 6..1 of one window: [ok, notesAsc]
RECURSIVE WindowNotes(_, _, _, _)
WindowNotes(keyName, intervals, start, s) ==
    IF s < 1 THEN [ok |-> TRUE, notesAsc |-> <<>>]
    ELSE LET frets == WindowFrets(keyName, intervals, s, start) IN
         IF Len(frets) < 3 THEN [ok |-> FALSE, notesAsc |-> <<>>]
         ELSE LET chosen == Take(frets, 3)
                  rest   == WindowNotes(keyName, intervals, start, s - 1)
              IN [ok |-> rest.ok,
                  notesAsc |-> [i \in 1..3 |-> TabNote(s, chosen[i], keyName)]
                               \o rest.notesAsc]

\* The descent starting again from the top note
UpThenDown_RepeatsTop(asc) == asc \o Reverse(asc)

UpThenDown(asc) == asc \o Reverse(DropLast(asc))

\* The loop over the window starts: positions in the order they are pushed
RECURSIVE WindowLoop(_, _, _, _)
WindowLoop(keyName, intervals, start, positions) ==
    IF start > FRET_MAX THEN positions
    ELSE LET w == WindowNotes(keyName, intervals, start, 6) IN
         IF ~w.ok THEN WindowLoop(keyName, intervals, start + 2, positions)
         ELSE LET fs   == {w.notesAsc[i].fret : i \in 1..Len(w.notesAsc)}
                  minF == SetMin(fs)
                  maxF == SetMax(fs)
                  dup  == \E i \in 1..Len(positions) :
                             positions[i].minFret = minF /\ positions[i].maxFret = maxF
                  p    == [minFret |-> minF, maxFret |-> maxF,
                           notesData |-> UpThenDown(w.notesAsc)]
              IN WindowLoop(keyName, intervals, start + 2,
                            IF dup THEN positions ELSE Append(positions, p))

\* The comparator of positions.sort with its operands exchanged
PositionBefore_Descending(a, b) ==
    \/ b.minFret < a.minFret
    \/ b.minFret = a.minFret /\ b.maxFret < a.maxFret

\* (a.minFret - b.minFret) || (a.maxFret - b.maxFret) < 0
PositionBefore(a, b) ==
    \/ a.minFret < b.minFret
    \/ a.minFret = b.minFret /\ a.maxFret < b.maxFret

\* Array.prototype.sort (stable) with the comparator above, by insertion
RECURSIVE SortPositions(_)
SortPositions(ps) ==
    IF Len(ps) <= 1 THEN ps
    ELSE LET init == SortPositions(DropLast(ps))
             x    == ps[Len(ps)]
             k    == Cardinality({i \in 1..Len(init) : ~PositionBefore(x, init[i])})
         IN SubSeq(init, 1, k) \o <<x>> \o SubSeq(init, k + 1, Len(init))

generate3NPSPositionsForScale(keyName, scaleName) ==
    IF scaleName \notin DOMAIN SCALE_DEFINITIONS THEN <<>>
    ELSE SortPositions(
           WindowLoop(keyName, SCALE_DEFINITIONS[scaleName],
                      Max(0, pickLowERootFret(keyName) - 2), <<>>))

\* ------------------------------------------------------------------------
\* tab.js: minor pentatonic boxes
\* ------------------------------------------------------------------------

boxFits(template, base) ==
    \A s \in 1..6 : \A i \in 1..Len(template.frets[s]) :
        LET f == base + template.frets[s][i] IN ~(f < 0 \/ f > FRET_MAX)

\* pickBaseFretForBox trying the octave above the root fret first
pickBaseFretForBox_OctaveUpFirst(keyName, template) ==
    LET rootFret == pickLowERootFret(keyName) IN
    IF boxFits(template, rootFret + 12) THEN rootFret + 12
    ELSE IF boxFits(template, rootFret) THEN rootFret
    ELSE IF boxFits(template, rootFret - 12) THEN rootFret - 12
    ELSE clampFret(rootFret)

pickBaseFretForBox(keyName, template) ==
    LET rootFret == pickLowERootFret(keyName) IN
    IF boxFits(template, rootFret) THEN rootFret
    ELSE IF boxFits(template, rootFret + 12) THEN rootFret + 12
    ELSE IF boxFits(template, rootFret - 12) THEN rootFret - 12
    ELSE clampFret(rootFret)

RECURSIVE BoxAsc(_, _, _, _)
BoxAsc(template, baseFretS6, keyName, s) ==
    IF s < 1 THEN <<>>
    ELSE LET offs == template.frets[s] IN
         [i \in 1..Len(offs) |-> TabNote(s, clampFret(baseFretS6 + offs[i]), keyName)]
         \o BoxAsc(template, baseFretS6, keyName, s - 1)

generateBoxNotes(template, baseFretS6, keyName) ==
    UpThenDown(BoxAsc(template, baseFretS6, keyName, 6))

MakeBox(tpl, keyName) ==
    LET notesData == generateBoxNotes(tpl, pickBaseFretForBox(keyName, tpl), keyName)
        frets     == {notesData[i].fret : i \in 1..Len(notesData)}
    IN [id |-> tpl.id, minFret |-> SetMin(frets), maxFret |-> SetMax(frets),
        notesData |-> notesData]

\* The comparator of boxes.sort with its operands exchanged
BoxBefore_Descending(a, b) ==
    \/ b.minFret < a.minFret
    \/ b.minFret = a.minFret /\ b.maxFret < a.maxFret
    \/ b.minFret = a.minFret /\ b.maxFret = a.maxFret /\ b.id < a.id

BoxBefore(a, b) ==
    \/ a.minFret < b.minFret
    \/ a.minFret = b.minFret /\ a.maxFret < b.maxFret
    \/ a.minFret = b.minFret /\ a.maxFret = b.maxFret /\ a.id < b.id

RECURSIVE SortBoxes(_)
SortBoxes(bs) ==
    IF Len(bs) <= 1 THEN bs
    ELSE LET init == SortBoxes(DropLast(bs))
             x    == bs[Len(bs)]
             k    == Cardinality({i \in 1..Len(init) : ~BoxBefore(x, init[i])})
         IN SubSeq(init, 1, k) \o <<x>> \o SubSeq(init, k + 1, Len(init))

generateAllMinorPentBoxes(keyName) ==
    SortBoxes([i \in 1..Len(MIN_PENT_BOX_TEMPLATES) |->
                  MakeBox(MIN_PENT_BOX_TEMPLATES[i], keyName)])

\* ------------------------------------------------------------------------
\* note-finder.js: note names and the staff hit test
\* ------------------------------------------------------------------------

\* Math.floor(midi / 12) - 1 and the sharp name of ((midi % 12) + 12) % 12
\* The octave from a quotient cut towards zero
noteNameFromMidi_Truncating(midi) ==
    [name |-> PC_NAMES_SHARP[PitchClass(midi) + 1],
     octave |-> (IF midi >= 0 THEN midi \div 12 ELSE -((-midi) \div 12)) - 1]

noteNameFromMidi(midi) ==
    [name |-> PC_NAMES_SHARP[PitchClass(midi) + 1], octave |-> (midi \div 12) - 1]

\* null, and a MIDI pitch
NoPitch == [null |-> TRUE]
Pitch(midi) == [null |-> FALSE, midi |-> midi]

\* Math.round(center - (y - centerY) / lineSpacing) for integers, lineSpacing
\* 10: the floor of the quotient plus one half
RoundedFromCenter(center, centerY, y) == ((10 * center - (y - centerY)) + 5) \div 10

\* hitTestStaffToMidi with Math.floor in the place of Math.round
hitTestStaffToMidi_Floor(x, y) ==
    IF y >= 20 /\ y <= 120
    THEN Pitch(Max(40, Min(88, (10 * 71 - (y - 70)) \div 10)))
    ELSE IF y >= 140 /\ y <= 240
    THEN Pitch(Max(40, Min(88, (10 * 50 - (y - 190)) \div 10)))
    ELSE NoPitch

hitTestStaffToMidi(x, y) ==
    IF y >= 20 /\ y <= 120
    THEN Pitch(Max(40, Min(88, RoundedFromCenter(71, 70, y))))
    ELSE IF y >= 140 /\ y <= 240
    THEN Pitch(Max(40, Min(88, RoundedFromCenter(50, 190, y))))
    ELSE NoPitch

\* ------------------------------------------------------------------------
\* note-quiz.js: constants and utility functions
\* ------------------------------------------------------------------------

\* [64, 59, 55, 50, 45, 40], index 0 (high E) to 5 (low E)
QUIZ_STRING_OPEN_MIDI == [s \in 0..5 |->
    CASE s = 0 -> 64 [] s = 1 -> 59 [] s = 2 -> 55
      [] s = 3 -> 50 [] s = 4 -> 45 [] s = 5 -> 40]

PC_NAMES_FLAT == <<
    <<"C">>, <<"D", "b">>, <<"D">>, <<"E", "b">>, <<"E">>, <<"F">>,
    <<"G", "b">>, <<"G">>, <<"A", "b">>, <<"A">>, <<"B", "b">>, <<"B">> >>

TOTAL_QUESTIONS == 10
FRETBOARD_FRETS == 24

\* str.includes(ch)
Includes(str, ch) == \E i \in 1..Len(str) : str[i] = ch

\* The two checkboxes taken for each other
pcNameFromMidi_FlagsSwapped(midi, flats, sharps) ==
    LET pc == PitchClass(midi) IN
    IF flats /\ sharps THEN <<PC_NAMES_SHARP[pc + 1], PC_NAMES_FLAT[pc + 1]>>
    ELSE IF sharps THEN <<PC_NAMES_FLAT[pc + 1]>>
    ELSE IF flats THEN <<PC_NAMES_SHARP[pc + 1]>>
    ELSE SelectSeq(<<PC_NAMES_SHARP[pc + 1]>>, LAMBDA n : ~Includes(n, "#"))

pcNameFromMidi(midi, flats, sharps) ==
    LET pc == PitchClass(midi) IN
    IF flats /\ sharps THEN <<PC_NAMES_SHARP[pc + 1], PC_NAMES_FLAT[pc + 1]>>
    ELSE IF flats THEN <<PC_NAMES_FLAT[pc + 1]>>
    ELSE IF sharps THEN <<PC_NAMES_SHARP[pc + 1]>>
    ELSE SelectSeq(<<PC_NAMES_SHARP[pc + 1]>>, LAMBDA n : ~Includes(n, "#"))

IsSpace(c) == c \in {" ", "\t"}

\* String.prototype.trim
RECURSIVE TrimLeft(_)
TrimLeft(str) == IF str # <<>> /\ IsSpace(Head(str)) THEN TrimLeft(Tail(str)) ELSE str

Trim(str) == Reverse(TrimLeft(Reverse(TrimLeft(str))))

\* str.replace(/\s+/g, "")
StripWhitespace(str) == SelectSeq(str, LAMBDA c : ~IsSpace(c))

\* str.replace(/x/g, y) for one-character x and y
ReplaceChar(str, x, y) == [i \in 1..Len(str) |-> IF str[i] = x THEN y ELSE str[i]]

UpperChar(c) ==
    CASE c = "a" -> "A" [] c = "b" -> "B" [] c = "c" -> "C" [] c = "d" -> "D"
      [] c = "e" -> "E" [] c = "f" -> "F" [] c = "g" -> "G" [] c = "h" -> "H"
      [] c = "x" -> "X" [] OTHER -> c

\* String.prototype.toUpperCase
ToUpperCase(str) == [i \in 1..Len(str) |-> UpperChar(str[i])]

\* normalizeInput without the removal of inner whitespace
normalizeInput_TrimOnly(str) ==
    ToUpperCase(ReplaceChar(ReplaceChar(Trim(str), "b", "b"), "#", "#"))

normalizeInput(str) ==
    ToUpperCase(ReplaceChar(ReplaceChar(StripWhitespace(Trim(str)), "b", "b"), "#", "#"))

\* Math.random(): the k-th draw (k = 0, 1, ...) of random source src, as the
\* numerator of a fraction over RandDen, so in [0, 1)
RandDen == 101
Rand(src, k) == ((src + 1) * (k + 3) * 37) % RandDen

\* Math.floor(Math.random() * (i + 1))
RandomIndex(src, k, i) == (Rand(src, k) * (i + 1)) \div RandDen

Swap(arr, i, j) == [arr EXCEPT ![i] = arr[j], ![j] = arr[i]]

\* One iteration of shuffle's loop, the k-th (k = 0, 1, ...): i = length-1-k,
\* j random in 0..i, swap arr[i] and arr[j] (1-based here: i + 1, j + 1)
ShuffleStep(arr, src, k) ==
    LET i == Len(arr) - 1 - k
    IN Swap(arr, i + 1, RandomIndex(src, k, i) + 1)

\* The iterations k, k+1, ..., k+n-1 of the loop in order: the first half of
\* them, then the rest on the array the first half produced (a swap keeps the
\* length, so the test only fixes the order of evaluation)
RECURSIVE ShuffleSteps(_, _, _, _)
ShuffleSteps(arr, src, k, n) ==
    IF n <= 0 THEN arr
    ELSE IF n = 1 THEN ShuffleStep(arr, src, k)
    ELSE LET half == ShuffleSteps(arr, src, k, n \div 2)
         IN IF Len(half) = Len(arr)
            THEN ShuffleSteps(half, src, k + (n \div 2), n - (n \div 2))
            ELSE half

\* shuffle(arr): for (i = arr.length - 1; i > 0; i--) swap arr[i], arr[j]
shuffle(arr, src) == ShuffleSteps(arr, src, 0, Len(arr) - 1)

Digits == <<"0", "1", "2", "3", "4", "5", "6", "7", "8", "9">>
DigitValue(c) == (CHOOSE i \in 1..10 : Digits[i] = c) - 1

\* Number(str) for a string of decimal digits ("" gives 0)
RECURSIVE Number(_)
Number(str) ==
    IF str = <<>> THEN 0
    ELSE 10 * Number(DropLast(str)) + DigitValue(str[Len(str)])

\* str.split("-") for a string holding one "-": the parts before and after it
SplitDash(str) ==
    LET d == CHOOSE i \in 1..Len(str) : str[i] = "-"
    IN <<SubSeq(str, 1, d - 1), SubSeq(str, d + 1, Len(str))>>

\* The value of a fretRange option for the frets lo..hi: "lo-hi"
NumberText(n) == IF n < 10 THEN <<Digits[n + 1]>>
                 ELSE <<Digits[(n \div 10) + 1], Digits[(n % 10) + 1]>>
FretRangeOption(lo, hi) == NumberText(lo) \o <<"-">> \o NumberText(hi)

StringIdxs(sRange) ==
    IF sRange = "all" THEN <<0, 1, 2, 3, 4, 5>>
    ELSE IF sRange = "treble" THEN <<0, 1, 2>>
    ELSE <<3, 4, 5>>

Question(s, f, flats, sharps) ==
    [stringIdx |-> s, fret |-> f, midi |-> QUIZ_STRING_OPEN_MIDI[s] + f,
     answerNames |-> pcNameFromMidi(QUIZ_STRING_OPEN_MIDI[s] + f, flats, sharps)]

\* The pool of buildQuestions: for each string in order, the frets
\* fretMin..fretMax in order
QuestionPool(sRange, fRange, flats, sharps) ==
    LET idxs    == StringIdxs(sRange)
        fretMin == Number(SplitDash(fRange)[1])
        fretMax == Number(SplitDash(fRange)[2])
        n       == IF fretMax >= fretMin THEN fretMax - fretMin + 1 ELSE 0
    IN [i \in 1..(Len(idxs) * n) |->
           Question(idxs[((i - 1) \div n) + 1], fretMin + ((i - 1) % n), flats, sharps)]

\* shuffle(pool).slice(0, 10) taking the first question beyond the limit
buildQuestions_OffByOne(sRange, fRange, flats, sharps, src) ==
    Take(shuffle(QuestionPool(sRange, fRange, flats, sharps), src),
         TOTAL_QUESTIONS + 1)

buildQuestions(sRange, fRange, flats, sharps, src) ==
    Take(shuffle(QuestionPool(sRange, fRange, flats, sharps), src),
         TOTAL_QUESTIONS)

\* ------------------------------------------------------------------------
\* note-quiz.js: answers and high scores
\* ------------------------------------------------------------------------

\* The verdict of submitAnswer on question q for the text input, with the
\* checkbox states flats and sharps at the time of the submit
isCorrect(q, input, flats, sharps) ==
    LET answers    == [i \in 1..Len(q.answerNames) |-> normalizeInput(q.answerNames[i])]
        user       == normalizeInput(input)
        pc         == JsRem(q.midi, 12)
        enharmonic == IF answers # <<>> /\ answers[1] = PC_NAMES_SHARP[pc + 1]
                      THEN PC_NAMES_FLAT[pc + 1]
                      ELSE PC_NAMES_SHARP[pc + 1]
    IN \/ user \in Range(answers)
       \/ flats /\ sharps /\ user = normalizeInput(enharmonic)

\* formatDate(d): d.toISOString().split("T")[0], "YYYY-MM-DD"
formatDate(d) ==
    <<Digits[(d.year \div 1000) + 1], Digits[((d.year \div 100) % 10) + 1],
      Digits[((d.year \div 10) % 10) + 1], Digits[(d.year % 10) + 1], "-",
      Digits[(d.month \div 10) + 1], Digits[(d.month % 10) + 1], "-",
      Digits[(d.day \div 10) + 1], Digits[(d.day % 10) + 1]>>

CharOrder(c) == IF c = "-" THEN 0 ELSE DigitValue(c) + 1

\* a.localeCompare(b) for strings of digits and "-": negative, 0 or positive
RECURSIVE localeCompare(_, _)
localeCompare(a, b) ==
    IF a = <<>> /\ b = <<>> THEN 0
    ELSE IF a = <<>> THEN -1
    ELSE IF b = <<>> THEN 1
    ELSE IF CharOrder(Head(a)) < CharOrder(Head(b)) THEN -1
    ELSE IF CharOrder(Head(a)) > CharOrder(Head(b)) THEN 1
    ELSE localeCompare(Tail(a), Tail(b))

\* (b.score - a.score || a.date.localeCompare(b.date)) < 0
HighScoreBefore(a, b) ==
    \/ a.score > b.score
    \/ a.score = b.score /\ localeCompare(a.date, b.date) < 0

\* quizState.highScores.sort(...): stable, by insertion
RECURSIVE SortHighScores(_)
SortHighScores(hs) ==
    IF Len(hs) <= 1 THEN hs
    ELSE LET init == SortHighScores(DropLast(hs))
             x    == hs[Len(hs)]
             k    == Cardinality({i \in 1..Len(init) : ~HighScoreBefore(x, init[i])})
         IN SubSeq(init, 1, k) \o <<x>> \o SubSeq(init, k + 1, Len(init))

HIGH_SCORES_KEPT == 10

NoItem == [kind |-> "none"]
Garbage == [kind |-> "garbage"]
\* JSON.stringify(list)
Json(list) == [kind |-> "json", value |-> list]

\* loadHighScores: the list read, [] when getItem or JSON.parse raises
loadHighScores(store, readFails) ==
    IF readFails \/ store.kind = "garbage" THEN <<>>
    ELSE IF store.kind = "none" THEN <<>>
    ELSE store.value

\* The name recorded for what prompt() returned
Initials(answer) ==
    LET initials == IF answer.cancelled \/ answer.text = <<>>
                    THEN <<"-", "-", "-">> ELSE answer.text
    IN Take(ToUpperCase(Trim(initials)), 3)

\* promptHighScore recording every score, 0 included
recordHighScore_Always(loaded, sc, name, date) ==
    Take(SortHighScores(Append(loaded, [name |-> name, score |-> sc, date |-> date])),
         HIGH_SCORES_KEPT)

\* promptHighScore keeping the last ten of the sorted list
recordHighScore_KeepLast(loaded, sc, name, date) ==
    IF sc = 0 THEN loaded
    ELSE LET all == SortHighScores(
                        Append(loaded, [name |-> name, score |-> sc, date |-> date]))
         IN SubSeq(all, Max(1, Len(all) - HIGH_SCORES_KEPT + 1), Len(all))

\* promptHighScore: the list after a quiz that ended with score sc
recordHighScore(loaded, sc, name, date) ==
    IF sc = 0 THEN loaded
    ELSE Take(SortHighScores(Append(loaded, [name |-> name, score |-> sc, date |-> date])),
              HIGH_SCORES_KEPT)

\* ------------------------------------------------------------------------
\* note-quiz.js: the session
\* ------------------------------------------------------------------------

MaxStarts == 2       \* startQuiz is called at most this often in a run
MaxElapsed == 1      \* readings of the elapsed time, in ticks
NumRandomSources == 1

RandomSources == 0..(NumRandomSources - 1)

Event(op, threw) == [op |-> op, threw |-> threw]

\* The run of endQuiz: whether the read of the store failed, and the name
\* and date it had for the entry
EndEvent(threw, readFailed, name, date) ==
    [op |-> "endQuiz", threw |-> threw, readFailed |-> readFailed,
     name |-> name, date |-> date]

\* setInterval: the id of the new interval
FreshInterval == CHOOSE id \in 1..(Cardinality(liveIntervals) + 1) : id \notin liveIntervals

\* startQuiz after the user chose the selects and checkboxes
StartQuiz(sRange, fRange, flats, sharps, src) ==
    /\ starts < MaxStarts
    /\ stringRange' = sRange
    /\ fretRange' = fRange
    /\ acceptFlats' = flats
    /\ acceptSharps' = sharps
    /\ questions' = buildQuestions(sRange, fRange, flats, sharps, src)
    /\ current' = 0
    /\ score' = 0
    /\ timeElapsed' = 0
    /\ accepting' = TRUE
    /\ timerInterval' = FreshInterval
    /\ liveIntervals' = liveIntervals \cup {FreshInterval}
    /\ feedback' = ""
    /\ lastEvent' = Event("startQuiz", FALSE)
    /\ answered' = <<>>
    /\ ended' = 0
    /\ starts' = starts + 1
    /\ UNCHANGED <<highScores, pendingAdvance, localStorage, noteInput, panelShown>>

\* stopTimer, as part of a handler
StopTimer ==
    /\ liveIntervals' = liveIntervals \ {timerInterval}
    /\ timerInterval' = 0

\* A reset that leaves the score as it is
ResetFields_KeepsScore ==
    /\ questions' = <<>>
    /\ current' = 0
    /\ score' = score
    /\ timeElapsed' = 0
    /\ accepting' = FALSE
    /\ StopTimer
    /\ feedback' = ""
    /\ answered' = <<>>
    /\ ended' = 0

ResetFields ==
    /\ questions' = <<>>
    /\ current' = 0
    /\ score' = 0
    /\ timeElapsed' = 0
    /\ accepting' = FALSE
    /\ StopTimer
    /\ feedback' = ""
    /\ answered' = <<>>
    /\ ended' = 0

ResetQuiz ==
    /\ ResetFields
    /\ lastEvent' = Event("resetQuiz", FALSE)
    /\ UNCHANGED <<highScores, pendingAdvance, localStorage, stringRange, fretRange,
                   acceptFlats, acceptSharps, noteInput, panelShown, starts>>

\* submitAnswer without its guard
submitHonored_Always == TRUE

\* if (!quizState.accepting) return;
submitHonored == accepting

\* submitAnswer after the user typed input and set the checkboxes
SubmitAnswer(input, flats, sharps) ==
    /\ noteInput' = input
    /\ acceptFlats' = flats
    /\ acceptSharps' = sharps
    /\ IF ~submitHonored
       THEN /\ lastEvent' = Event("submitAnswer", FALSE)
            /\ UNCHANGED <<questions, current, score, timeElapsed, timerInterval,
                           accepting, liveIntervals, pendingAdvance, feedback, answered>>
       ELSE IF current + 1 > Len(questions)
       THEN \* q is undefined: q.answerNames raises a TypeError
            /\ lastEvent' = Event("submitAnswer", TRUE)
            /\ UNCHANGED <<questions, current, score, timeElapsed, timerInterval,
                           accepting, liveIntervals, pendingAdvance, feedback, answered>>
       ELSE LET correct == isCorrect(questions[current + 1], input, flats, sharps) IN
            /\ score' = IF correct THEN score + 1 ELSE score
            /\ feedback' = IF correct THEN "Correct!" ELSE "Incorrect!"
            /\ accepting' = FALSE
            /\ StopTimer
            /\ pendingAdvance' = pendingAdvance + 1
            /\ answered' = Append(answered, current)
            /\ lastEvent' = Event("submitAnswer", FALSE)
            /\ UNCHANGED <<questions, current, timeElapsed>>
    /\ UNCHANGED <<highScores, localStorage, stringRange, fretRange, panelShown,
                   ended, starts>>

\* endQuiz and promptHighScore, as part of the auto-advance callback
EndQuiz(readFails, writeFails, answer, date) ==
    LET loaded == loadHighScores(localStorage, readFails)
        name   == Initials(answer)
        day    == formatDate(date)
        list   == recordHighScore(loaded, score, name, day)
    IN /\ feedback' = "Quiz complete!"
       /\ highScores' = list
       /\ ended' = ended + 1
       /\ IF score = 0
          THEN /\ panelShown' = TRUE
               /\ lastEvent' = EndEvent(FALSE, readFails, name, day)
               /\ UNCHANGED localStorage
          ELSE IF writeFails
          THEN \* setItem raises out of saveHighScores, before showHighScores
               /\ lastEvent' = EndEvent(TRUE, readFails, name, day)
               /\ UNCHANGED <<localStorage, panelShown>>
          ELSE /\ localStorage' = Json(list)
               /\ panelShown' = TRUE
               /\ lastEvent' = EndEvent(FALSE, readFails, name, day)

\* The callback submitAnswer set with setTimeout(..., 900); finish is the
\* storage's and the user's part in endQuiz, used when the quiz ends
AdvanceTimeout(finishes) ==
    /\ pendingAdvance > 0
    /\ pendingAdvance' = pendingAdvance - 1
    /\ current' = current + 1
    /\ IF current + 1 < TOTAL_QUESTIONS
       THEN /\ accepting' = TRUE
            /\ noteInput' = <<>>
            /\ timerInterval' = FreshInterval
            /\ liveIntervals' = liveIntervals \cup {FreshInterval}
            /\ feedback' = ""
            /\ lastEvent' = Event("advance", FALSE)
            /\ UNCHANGED <<highScores, localStorage, panelShown, ended>>
       ELSE /\ \E f \in finishes : EndQuiz(f.readFails, f.writeFails, f.answer, f.date)
            /\ UNCHANGED <<accepting, noteInput, timerInterval, liveIntervals>>
    /\ UNCHANGED <<questions, score, timeElapsed, stringRange, fretRange,
                   acceptFlats, acceptSharps, answered, starts>>

\* The callback startTimer set with setInterval(..., 100), for a live interval
TimerTick(id, elapsed) ==
    /\ id \in liveIntervals
    /\ timeElapsed' = elapsed
    /\ lastEvent' = Event("tick", FALSE)
    /\ UNCHANGED <<questions, current, score, timerInterval, accepting, highScores,
                   liveIntervals, pendingAdvance, localStorage, stringRange, fretRange,
                   acceptFlats, acceptSharps, noteInput, feedback, panelShown,
                   answered, ended, starts>>

\* The click handler of clearHighScoresBtn
ClearHighScores(writeFails) ==
    /\ panelShown
    /\ highScores' = <<>>
    /\ IF writeFails
       THEN /\ lastEvent' = Event("clearHighScores", TRUE)
            /\ UNCHANGED localStorage
       ELSE /\ lastEvent' = Event("clearHighScores", FALSE)
            /\ localStorage' = Json(<<>>)
    /\ UNCHANGED <<questions, current, score, timeElapsed, timerInterval, accepting,
                   liveIntervals, pendingAdvance, stringRange, fretRange, acceptFlats,
                   acceptSharps, noteInput, feedback, panelShown, answered, ended,
                   starts>>

\* The click handler of playAgainBtn
PlayAgain ==
    /\ panelShown
    /\ panelShown' = FALSE
    /\ ResetFields
    /\ lastEvent' = Event("playAgain", FALSE)
    /\ UNCHANGED <<highScores, pendingAdvance, localStorage, stringRange, fretRange,
                   acceptFlats, acceptSharps, noteInput, starts>>

\* ---- inputs of the session

Day(y, m, d) == [year |-> y, month |-> m, day |-> d]

\* How a quiz can end: whether the store fails, what the user answers to the
\* prompt and the day
Finish(readFails, writeFails, cancelled, text, date) ==
    [readFails |-> readFails, writeFails |-> writeFails,
     answer |-> [cancelled |-> cancelled, text |-> text], date |-> date]

SessionFinishes == {
    Finish(FALSE, FALSE, TRUE, <<>>, Day(2026, 1, 9)),
    Finish(FALSE, FALSE, FALSE, <<" ", "a", "b", "c", "d">>, Day(2026, 1, 10)),
    Finish(TRUE, FALSE, FALSE, <<" ", "a", "b", "c", "d">>, Day(2026, 1, 9)),
    Finish(FALSE, TRUE, TRUE, <<>>, Day(2026, 1, 10))}

Entry(name, sc, date) == [name |-> name, score |-> sc, date |-> formatDate(date)]

\* A full ledger as earlier visits of the page left it
LedgerTen == <<
    Entry(<<"A", "B", "C">>, 10, Day(2025, 12, 31)),
    Entry(<<"-", "-", "-">>, 9, Day(2026, 1, 9)),
    Entry(<<"A", "B", "C">>, 9, Day(2026, 1, 10)),
    Entry(<<"A", "B", "C">>, 8, Day(2025, 12, 31)),
    Entry(<<"-", "-", "-">>, 7, Day(2026, 1, 9)),
    Entry(<<"A", "B", "C">>, 6, Day(2026, 1, 9)),
    Entry(<<"A", "B", "C">>, 5, Day(2026, 1, 9)),
    Entry(<<"-", "-", "-">>, 5, Day(2026, 1, 10)),
    Entry(<<"A", "B", "C">>, 4, Day(2025, 12, 31)),
    Entry(<<"A", "B", "C">>, 3, Day(2026, 1, 10)) >>

InitialStores == {NoItem, Json(LedgerTen)}

\* The state after DOMContentLoaded: loadHighScores, showHighScores
QuizLoaded(store, readFails) ==
    /\ questions = <<>>
    /\ current = 0
    /\ score = 0
    /\ timeElapsed = 0
    /\ timerInterval = 0
    /\ accepting = FALSE
    /\ localStorage = store
    /\ highScores = loadHighScores(store, readFails)
    /\ liveIntervals = {}
    /\ pendingAdvance = 0
    /\ stringRange = "all"
    /\ fretRange = FretRangeOption(0, 5)
    /\ acceptFlats = FALSE
    /\ acceptSharps = TRUE
    /\ noteInput = <<>>
    /\ feedback = ""
    /\ panelShown = TRUE
    /\ lastEvent = Event("DOMContentLoaded", FALSE)
    /\ answered = <<>>
    /\ ended = 0
    /\ starts = 0

\* The run before buildScaleMidiSequence was called
NoRun == [up |-> <<>>, full |-> <<>>, rootMidi |-> 0]

\* Nothing generated yet for the selection
NothingGenerated ==
    /\ tabPhase = "selected"
    /\ tabBoxes = <<>>
    /\ tabPositions = <<>>
    /\ tabBases = <<>>
    /\ tabRun = NoRun
    /\ tabNotes = <<>>
    /\ tabError = ""

TabIdle ==
    /\ tabKey = <<"C">>
    /\ tabScale = "Major"
    /\ NothingGenerated

\* #noteName and #noteInfo as clearNoteDisplay leaves them
NamePrompt == <<"Click a note">>
InfoPrompt == [prompt |-> "Tap any fret or staff position"]

\* No string of the chord holds a note
NoSelection == [none |-> TRUE]
NoChord == [i \in 0..5 |-> NoSelection]

\* chooseBestPosition not yet called
WalkIdle ==
    /\ walkPrev = NullPosition
    /\ walkCandidates = <<>>
    /\ walkChosen = NullPosition

\* The chord note finder after DOMContentLoaded: renderFretboard, whose
\* updateNoteDisplay disables the play button of an empty chord
ChordLoaded ==
    /\ chordSelections = NoChord
    /\ chordIsPlaying = FALSE
    /\ oscillators = <<>>
    /\ playDisabled = TRUE
    /\ chordEvent = "DOMContentLoaded"

\* The sequence player as the module creates it
PlayerIdle ==
    /\ playerIsPlaying = FALSE
    /\ playbackTimer = 0
    /\ pendingTimers = {}
    /\ timersSet = 0
    /\ currentSequence = <<>>
    /\ currentIndex = 0
    /\ startedNotes = <<>>
    /\ playerEvent = "created"

OtherPagesIdle == WalkIdle /\ ChordLoaded /\ PlayerIdle

\* The note finder after DOMContentLoaded: setMode("tab"), clearNoteDisplay
FinderLoaded ==
    /\ clickX = 0
    /\ clickY = 0
    /\ hitMidi = NoPitch
    /\ currentMidi = NoPitch
    /\ noteName = NamePrompt
    /\ noteInfo = InfoPrompt
    /\ finderPhase = "loaded"

\* ---- the session with a few selections and answers

SessionRanges == {<<"all", FretRangeOption(0, 5)>>}
SessionFlags == {<<FALSE, TRUE>>}

\* The texts a user answers the open question with: its first acceptable
\* name in lower case after a blank, and a wrong text
SessionInputs ==
    {<<"x">>} \cup
    (IF accepting /\ current + 1 <= Len(questions)
        /\ questions[current + 1].answerNames # <<>>
     THEN {<<" ">> \o [i \in 1..Len(questions[current + 1].answerNames[1]) |->
              LET c == questions[current + 1].answerNames[1][i]
              IN CASE c = "A" -> "a" [] c = "B" -> "b" [] c = "C" -> "c"
                   [] c = "D" -> "d" [] c = "E" -> "e" [] c = "F" -> "f"
                   [] c = "G" -> "g" [] OTHER -> c]}
     ELSE {})

Init ==
    /\ TabIdle
    /\ FinderLoaded
    /\ OtherPagesIdle
    /\ \E store \in InitialStores, readFails \in BOOLEAN : QuizLoaded(store, readFails)

DoStartQuiz ==
    /\ \E r \in SessionRanges, fl \in SessionFlags, src \in RandomSources :
          StartQuiz(r[1], r[2], fl[1], fl[2], src)
    /\ UNCHANGED <<tabVars, finderVars, walkVars, chordVars, playerVars>>

DoResetQuiz == ResetQuiz /\ UNCHANGED <<tabVars, finderVars, walkVars, chordVars, playerVars>>

DoSubmitAnswer ==
    /\ \E input \in SessionInputs : SubmitAnswer(input, acceptFlats, acceptSharps)
    /\ UNCHANGED <<tabVars, finderVars, walkVars, chordVars, playerVars>>

DoAdvanceTimeout == AdvanceTimeout(SessionFinishes) /\ UNCHANGED <<tabVars, finderVars, walkVars, chordVars, playerVars>>

DoTimerTick ==
    /\ \E id \in liveIntervals, elapsed \in 1..MaxElapsed : TimerTick(id, elapsed)
    /\ UNCHANGED <<tabVars, finderVars, walkVars, chordVars, playerVars>>

DoClearHighScores ==
    /\ \E writeFails \in BOOLEAN : ClearHighScores(writeFails)
    /\ UNCHANGED <<tabVars, finderVars, walkVars, chordVars, playerVars>>

DoPlayAgain == PlayAgain /\ UNCHANGED <<tabVars, finderVars, walkVars, chordVars, playerVars>>

Next ==
    \/ DoStartQuiz
    \/ DoResetQuiz
    \/ DoSubmitAnswer
    \/ DoAdvanceTimeout
    \/ DoTimerTick
    \/ DoClearHighScores
    \/ DoPlayAgain

Spec == Init /\ [][Next]_vars

\* ---- buildQuestions over every string range and fret range

StringRangeOptions == {"all", "treble", "bass"}

BuildInit == TabIdle /\ FinderLoaded /\ OtherPagesIdle /\ QuizLoaded(NoItem, FALSE)

BuildQuestions ==
    /\ starts = 0
    /\ \E sr \in StringRangeOptions, lo \in 0..FRETBOARD_FRETS, flats \in BOOLEAN,
          sharps \in BOOLEAN, src \in RandomSources :
          \E hi \in lo..FRETBOARD_FRETS :
             StartQuiz(sr, FretRangeOption(lo, hi), flats, sharps, src)
    /\ UNCHANGED <<tabVars, finderVars, walkVars, chordVars, playerVars>>

BuildNext == BuildQuestions

SpecBuild == BuildInit /\ [][BuildNext]_vars

\* ---- submitAnswer on the first question, over every pitch class, every
\* ---- state of the checkboxes and many spellings of an answer

LowerChar(c) ==
    CASE c = "A" -> "a" [] c = "B" -> "b" [] c = "C" -> "c" [] c = "D" -> "d"
      [] c = "E" -> "e" [] c = "F" -> "f" [] c = "G" -> "g" [] OTHER -> c

NoteNames == Range(PC_NAMES_SHARP) \cup Range(PC_NAMES_FLAT)

\* Each note name as it is, in lower case after a blank, and with a blank
\* before its accidental and a tab after it; a wrong text and the empty text
AnswerTexts ==
    NoteNames
    \cup {<<" ">> \o [i \in 1..Len(n) |-> LowerChar(n[i])] : n \in NoteNames}
    \cup {<<n[1], " ">> \o Tail(n) \o <<"\t">> : n \in NoteNames}
    \cup {<<"x">>, <<>>}

AnswerStart ==
    /\ starts = 0
    /\ \E sr \in StringRangeOptions, f \in 0..11, flats \in BOOLEAN,
          sharps \in BOOLEAN, src \in RandomSources :
          StartQuiz(sr, FretRangeOption(f, f), flats, sharps, src)
    /\ UNCHANGED <<tabVars, finderVars, walkVars, chordVars, playerVars>>

AnswerSubmit ==
    /\ accepting
    /\ answered = <<>>
    /\ \E input \in AnswerTexts, flats \in BOOLEAN, sharps \in BOOLEAN :
          SubmitAnswer(input, flats, sharps)
    /\ UNCHANGED <<tabVars, finderVars, walkVars, chordVars, playerVars>>

AnswerNext == AnswerStart \/ AnswerSubmit

SpecAnswer == BuildInit /\ [][AnswerNext]_vars

\* ------------------------------------------------------------------------
\* tab page: renderApp's two generators applied to a selection
\* ------------------------------------------------------------------------

\* A key and a scale the tables do not hold, besides those they hold
KeyInputs == Keys \cup {<<"H">>}
ScaleInputs == ScaleNames \cup {"Hungarian Minor"}

TabInit ==
    /\ tabKey \in KeyInputs
    /\ tabScale \in ScaleInputs
    /\ NothingGenerated
    /\ FinderLoaded
    /\ OtherPagesIdle
    /\ QuizLoaded(NoItem, FALSE)

\* throw new Error("Unknown key: " + keyName), out of the generator called
ThrowUnknownKey ==
    /\ tabError' = "Unknown key"
    /\ tabPhase' = "error"
    /\ UNCHANGED <<tabBoxes, tabPositions, tabBases, tabRun, tabNotes>>

\* generateAllMinorPentBoxes(key)
RenderBoxes ==
    /\ tabPhase = "selected"
    /\ IF tabKey \notin DOMAIN KEY_TO_SEMITONE_FROM_E
       THEN ThrowUnknownKey
       ELSE /\ tabBoxes' = generateAllMinorPentBoxes(tabKey)
            /\ tabBases' = [i \in 1..Len(MIN_PENT_BOX_TEMPLATES) |->
                               pickBaseFretForBox(tabKey, MIN_PENT_BOX_TEMPLATES[i])]
            /\ tabPhase' = "boxes"
            /\ UNCHANGED <<tabPositions, tabRun, tabNotes, tabError>>
    /\ UNCHANGED <<tabKey, tabScale>>
    /\ UNCHANGED <<finderVars, quizVars, walkVars, chordVars, playerVars>>

\* generate3NPSPositionsForScale(key, scale)
RenderPositions ==
    /\ tabPhase = "selected"
    /\ IF tabScale \in DOMAIN SCALE_DEFINITIONS /\ tabKey \notin DOMAIN PC_TO_INDEX
       THEN ThrowUnknownKey
       ELSE /\ tabPositions' = generate3NPSPositionsForScale(tabKey, tabScale)
            /\ tabPhase' = "positions"
            /\ UNCHANGED <<tabBoxes, tabBases, tabRun, tabNotes, tabError>>
    /\ UNCHANGED <<tabKey, tabScale>>
    /\ UNCHANGED <<finderVars, quizVars, walkVars, chordVars, playerVars>>

\* generateTabForScale(key, scale)
GenerateTab ==
    /\ tabPhase = "selected"
    /\ IF tabScale \in DOMAIN SCALE_DEFINITIONS /\ tabKey \notin DOMAIN PC_TO_INDEX
       THEN ThrowUnknownKey
       ELSE /\ tabRun' = IF tabScale \in DOMAIN SCALE_DEFINITIONS
                         THEN buildScaleMidiSequence(tabKey, SCALE_DEFINITIONS[tabScale])
                         ELSE NoRun
            /\ tabNotes' = generateTabForScale(tabKey, tabScale)
            /\ tabPhase' = "tab"
            /\ UNCHANGED <<tabBoxes, tabPositions, tabBases, tabError>>
    /\ UNCHANGED <<tabKey, tabScale>>
    /\ UNCHANGED <<finderVars, quizVars, walkVars, chordVars, playerVars>>

TabNext == RenderBoxes \/ RenderPositions \/ GenerateTab

SpecTab == TabInit /\ [][TabNext]_vars

\* ------------------------------------------------------------------------
\* note finder: clicks on the staff and notes displayed
\* ------------------------------------------------------------------------

MaxClickY == 260     \* clicks fall on rows 0..MaxClickY of the drawing
MaxMidiInput == 130  \* notes displayed are -MaxMidiInput..MaxMidiInput

ClickXs == {0, 450}
ClickYs == 0..MaxClickY
MidiInputs == (0 - MaxMidiInput)..MaxMidiInput

\* updateNoteDisplay(midi), as part of a handler
ShowNote(midi) ==
    /\ currentMidi' = Pitch(midi)
    /\ noteName' = noteNameFromMidi(midi).name
    /\ noteInfo' = [midi |-> midi, octave |-> noteNameFromMidi(midi).octave]

\* The click handler of the staff drawing, for a click at (x, y)
StaffClick(x, y) ==
    /\ clickX' = x
    /\ clickY' = y
    /\ hitMidi' = hitTestStaffToMidi(x, y)
    /\ IF hitTestStaffToMidi(x, y) # NoPitch
       THEN ShowNote(hitTestStaffToMidi(x, y).midi)
       ELSE UNCHANGED <<currentMidi, noteName, noteInfo>>
    /\ finderPhase' = "clicked"

\* updateNoteDisplay(midi) called with any pitch
UpdateNoteDisplay(midi) ==
    /\ ShowNote(midi)
    /\ finderPhase' = "displayed"
    /\ UNCHANGED <<clickX, clickY, hitMidi>>

FinderInit == TabIdle /\ FinderLoaded /\ OtherPagesIdle /\ QuizLoaded(NoItem, FALSE)

DoStaffClick ==
    /\ \E x \in ClickXs, y \in ClickYs : StaffClick(x, y)
    /\ UNCHANGED <<tabVars, quizVars, walkVars, chordVars, playerVars>>

DoUpdateNoteDisplay ==
    /\ \E midi \in MidiInputs : UpdateNoteDisplay(midi)
    /\ UNCHANGED <<tabVars, quizVars, walkVars, chordVars, playerVars>>

\* Clicks on the staff
FinderNext == DoStaffClick

SpecFinder == FinderInit /\ [][FinderNext]_vars

\* Notes displayed, whatever selected them
NamesNext == DoUpdateNoteDisplay

SpecNames == FinderInit /\ [][NamesNext]_vars

\* ---- chooseBestPosition over every previous position and every pitch

\* The positions of the fretboard, and null
WalkPositions == {[string |-> s, fret |-> f] : s \in 1..6, f \in 0..FRET_MAX}
WalkPrevs == WalkPositions \cup {NullPosition}

\* The pitches of the fretboard: open string 6 up to fret 24 of string 1
WalkPitches == STRING_OPEN_MIDI[6]..(STRING_OPEN_MIDI[1] + FRET_MAX)

\* One call chooseBestPosition(prev, allPositionsForMidi(midi)), as
\* mapMidiToTabNotes makes it for a pitch that has candidates
ChoosePosition(prev, midi) ==
    /\ walkCandidates = <<>>
    /\ allPositionsForMidi(midi) # <<>>
    /\ walkPrev' = prev
    /\ walkCandidates' = allPositionsForMidi(midi)
    /\ walkChosen' = chooseBestPosition(prev, allPositionsForMidi(midi))

DoChoosePosition ==
    /\ \E prev \in WalkPrevs, midi \in WalkPitches : ChoosePosition(prev, midi)
    /\ UNCHANGED <<tabVars, finderVars, quizVars, chordVars, playerVars>>

WalkInit == TabIdle /\ FinderLoaded /\ OtherPagesIdle /\ QuizLoaded(NoItem, FALSE)

WalkNext == DoChoosePosition

SpecWalk == WalkInit /\ [][WalkNext]_vars

\* ------------------------------------------------------------------------
\* note-finder.js: the chord and its playback
\* ------------------------------------------------------------------------

\* Frets clicked: 0..MaxChordFret of the 24 the fretboard draws
MaxChordFret == 1
ChordFrets == 0..MaxChordFret

\* stringsTopToBottom[stringIdx].openMidi
ChordOpenMidi == [i \in 0..5 |->
    CASE i = 0 -> 64 [] i = 1 -> 59 [] i = 2 -> 55
      [] i = 3 -> 50 [] i = 4 -> 45 [] i = 5 -> 40]

Selection(fret, midi) == [none |-> FALSE, fret |-> fret, midi |-> midi]

\* The pitches of the selections from stringIdx 5 down to stringIdx lowest
RECURSIVE MidisFrom(_, _)
MidisFrom(selections, i) ==
    IF i < 0 THEN <<>>
    ELSE (IF selections[i] = NoSelection THEN <<>> ELSE <<selections[i].midi>>)
         \o MidisFrom(selections, i - 1)

getChordMidisLowToHigh(selections) == MidisFrom(selections, 5)

\* stopPlayback: AudioEngine.stopAll leaves no oscillator
StopPlayback ==
    /\ chordIsPlaying' = FALSE
    /\ oscillators' = <<>>

\* startPlayback for the selections given: nothing at all for an empty chord,
\* else AudioEngine.playChord, which stops every oscillator and starts one
\* for each pitch
StartPlayback(selections) ==
    LET midis == getChordMidisLowToHigh(selections) IN
    IF Len(midis) = 0
    THEN UNCHANGED <<chordIsPlaying, oscillators>>
    ELSE /\ chordIsPlaying' = TRUE
         /\ oscillators' = midis

\* toggleChordSelection(stringIdx, fret, openMidi), with the updateNoteDisplay
\* it calls
ToggleChordSelection(stringIdx, fret) ==
    LET midi     == ChordOpenMidi[stringIdx] + fret
        existing == chordSelections[stringIdx]
        same     == existing # NoSelection /\ existing.fret = fret
        toggled  == [chordSelections EXCEPT
                        ![stringIdx] = IF same THEN NoSelection
                                       ELSE Selection(fret, midi)]
    IN /\ chordSelections' = toggled
       /\ playDisabled' = (Len(getChordMidisLowToHigh(toggled)) = 0)
       /\ IF chordIsPlaying THEN StartPlayback(toggled)
          ELSE UNCHANGED <<chordIsPlaying, oscillators>>
       /\ chordEvent' = "toggleChordSelection"

\* The click handler of the play button; a disabled button gets no click
PlayButtonClick ==
    /\ ~playDisabled
    /\ IF chordIsPlaying THEN StopPlayback ELSE StartPlayback(chordSelections)
    /\ chordEvent' = "playBtn"
    /\ UNCHANGED <<chordSelections, playDisabled>>

DoToggleChordSelection ==
    /\ \E stringIdx \in 0..5, fret \in ChordFrets : ToggleChordSelection(stringIdx, fret)
    /\ UNCHANGED <<tabVars, finderVars, quizVars, walkVars, playerVars>>

DoPlayButtonClick ==
    /\ PlayButtonClick
    /\ UNCHANGED <<tabVars, finderVars, quizVars, walkVars, playerVars>>

ChordInit == TabIdle /\ FinderLoaded /\ OtherPagesIdle /\ QuizLoaded(NoItem, FALSE)

ChordNext == DoToggleChordSelection \/ DoPlayButtonClick

SpecChord == ChordInit /\ [][ChordNext]_vars

\* ------------------------------------------------------------------------
\* tab.js: the sequence player
\* ------------------------------------------------------------------------

\* Calls of setTimeout followed, of the unbounded many of a playback
MaxTimersSet == 8

\* notesData handed to playSequence: none, two notes, three notes
PlayerSequences == {
    <<>>,
    <<[string |-> 6, fret |-> 5], [string |-> 6, fret |-> 8]>>,
    <<[string |-> 5, fret |-> 3], [string |-> 5, fret |-> 5], [string |-> 4, fret |-> 2]>> }

\* scheduleNextNote, run with isPlaying true on the sequence, the index and
\* the pending timeouts given: playNote, the index moved on with wrap-around
\* and a new timeout kept in playbackTimer
ScheduleNextNote(sequence, index, pending, started) ==
    LET note == sequence[index + 1] IN
    /\ startedNotes' = Append(started, STRING_OPEN_MIDI[note.string] + note.fret)
    /\ currentIndex' = (index + 1) % Len(sequence)
    /\ timersSet' = timersSet + 1
    /\ playbackTimer' = timersSet + 1
    /\ pendingTimers' = pending \cup {timersSet + 1}

\* AudioEngine.playSequence(notesData, newBpm, playButton)
PlaySequence(notesData) ==
    LET \* if (isPlaying) stopPlayback();
        pending == IF playerIsPlaying /\ playbackTimer # 0
                   THEN pendingTimers \ {playbackTimer} ELSE pendingTimers
        timer   == IF playerIsPlaying THEN 0 ELSE playbackTimer
    IN /\ timersSet < MaxTimersSet
       /\ playerEvent' = "playSequence"
       /\ IF Len(notesData) = 0
          THEN /\ playerIsPlaying' = FALSE
               /\ playbackTimer' = timer
               /\ pendingTimers' = pending
               /\ UNCHANGED <<timersSet, currentSequence, currentIndex, startedNotes>>
          ELSE /\ currentSequence' = notesData
               /\ playerIsPlaying' = TRUE
               /\ ScheduleNextNote(notesData, 0, pending, <<>>)

\* A stop that forgets the timeout without clearing it
PlayerStopPlayback_KeepsTimer ==
    /\ playerIsPlaying' = FALSE
    /\ playbackTimer' = 0
    /\ playerEvent' = "stopPlayback"
    /\ UNCHANGED <<pendingTimers, timersSet, currentSequence, currentIndex, startedNotes>>

\* AudioEngine.stopPlayback()
PlayerStopPlayback ==
    /\ playerIsPlaying' = FALSE
    /\ pendingTimers' = IF playbackTimer # 0 THEN pendingTimers \ {playbackTimer}
                        ELSE pendingTimers
    /\ playbackTimer' = 0
    /\ playerEvent' = "stopPlayback"
    /\ UNCHANGED <<timersSet, currentSequence, currentIndex, startedNotes>>

\* A pending timeout fires: scheduleNextNote, which returns at once when
\* isPlaying is false
TimerFires(id) ==
    /\ id \in pendingTimers
    /\ playerEvent' = "timer"
    /\ IF ~playerIsPlaying
       THEN /\ pendingTimers' = pendingTimers \ {id}
            /\ UNCHANGED <<playbackTimer, timersSet, currentIndex, startedNotes>>
       ELSE /\ timersSet < MaxTimersSet
            /\ ScheduleNextNote(currentSequence, currentIndex,
                                pendingTimers \ {id}, startedNotes)
    /\ UNCHANGED <<playerIsPlaying, currentSequence>>

DoPlaySequence ==
    /\ \E notesData \in PlayerSequences : PlaySequence(notesData)
    /\ UNCHANGED <<tabVars, finderVars, quizVars, walkVars, chordVars>>

DoStopPlayback ==
    /\ PlayerStopPlayback
    /\ UNCHANGED <<tabVars, finderVars, quizVars, walkVars, chordVars>>

DoTimerFires ==
    /\ \E id \in pendingTimers : TimerFires(id)
    /\ UNCHANGED <<tabVars, finderVars, quizVars, walkVars, chordVars>>

PlayerInit == TabIdle /\ FinderLoaded /\ OtherPagesIdle /\ QuizLoaded(NoItem, FALSE)

PlayerNext == DoPlaySequence \/ DoStopPlayback \/ DoTimerFires

SpecPlayer == PlayerInit /\ [][PlayerNext]_vars

\* ------------------------------------------------------------------------
\* Properties of the position generator
\* ------------------------------------------------------------------------

NotePc(n) == (STRING_OPEN_MIDI[n.string] + n.fret) % 12

\* The ascending half of an up-then-down sequence of 2n-1 notes
AscHalf(notes) == SubSeq(notes, 1, (Len(notes) + 1) \div 2)

NotesOnString(notes, s) == SelectSeq(notes, LAMBDA n : n.string = s)

MinorPentPcs(keyName) == {(PC_TO_INDEX[keyName] + iv) % 12 : iv \in {0, 3, 5, 7, 10}}

\* C9: every note of every generated minor-pentatonic box has a pitch class
\* of the key's minor pentatonic set {root, +3, +5, +7, +10}, with exactly
\* two notes on each of the six strings in the ascending half.
C9_BoxesMusicallyCorrect ==
    tabPhase = "boxes" =>
        \A b \in 1..Len(tabBoxes) :
            /\ \A i \in 1..Len(tabBoxes[b].notesData) :
                   NotePc(tabBoxes[b].notesData[i]) \in MinorPentPcs(tabKey)
            /\ \A s \in 1..6 :
                   Len(NotesOnString(AscHalf(tabBoxes[b].notesData), s)) = 2

\* The scale's pitch classes, from the table and the key's index
ScalePcs(keyName, scaleName) ==
    {(PC_TO_INDEX[keyName] + SCALE_DEFINITIONS[scaleName][i]) % 12 :
        i \in 1..Len(SCALE_DEFINITIONS[scaleName])}

Is3NPSPosition(p, keyName, scaleName) ==
    LET asc == AscHalf(p.notesData) IN
    /\ Len(asc) = 18
    /\ \A i \in 1..18 : asc[i].string = 6 - ((i - 1) \div 3)
    /\ \A i \in 1..17 : asc[i].string = asc[i + 1].string => asc[i].fret < asc[i + 1].fret
    /\ \E start \in 0..(FRET_MAX - 6) :
           \A i \in 1..18 : asc[i].fret \in start..(start + 6)
    /\ \A i \in 1..18 : NotePc(asc[i]) \in ScalePcs(keyName, scaleName)

\* C10: every 3NPS position has, in its ascending half, exactly 3 notes on
\* each string 6..1 with ascending frets, all frets inside one 7-fret window
\* within 0..24 and all pitch classes in the scale; (C, Major) yields at
\* least one position.
C10_ThreeNotesPerString ==
    tabPhase = "positions" =>
        /\ \A k \in 1..Len(tabPositions) :
               Is3NPSPosition(tabPositions[k], tabKey, tabScale)
        /\ (tabKey = <<"C">> /\ tabScale = "Major") => Len(tabPositions) >= 1

C10_Witness ==
    /\ tabPhase = "positions"
    /\ tabKey = <<"C">>
    /\ tabScale = "Major"
    /\ Len(tabPositions) >= 2

\* C11: a scale name that is not in the table is signalled as an error:
\* after generate3NPSPositionsForScale or generateTabForScale was called with
\* it, an Error was raised and no result (empty or defaulted) was returned.
C11_UnknownScaleIsError ==
    (tabPhase \in {"positions", "tab", "error"} /\ tabScale \notin ScaleNames) =>
        (tabPhase = "error" /\ tabError # "")

\* The pitch of the key's lowest root on string 6 (open pitch 40)
RootPitchOnString6(keyName) ==
    40 + (CHOOSE f \in 0..11 : (40 + f) % 12 = PC_TO_INDEX[keyName])

StrictlyIncreasing(seq) == \A i \in 1..(Len(seq) - 1) : seq[i] < seq[i + 1]

\* C12: for every key and scale of the table the two-octave run starts and
\* ends on the key's root pitch on string 6, its ascending half is strictly
\* increasing (so no pitch repeats) and its peak is 24 semitones above the root.
C12_TwoOctaveRun ==
    (tabPhase = "tab" /\ tabScale \in ScaleNames) =>
        LET full == tabRun.full
            asc  == AscHalf(full)
            root == RootPitchOnString6(tabKey)
        IN /\ full[1] = root
           /\ full[Len(full)] = root
           /\ StrictlyIncreasing(asc)
           /\ asc[Len(asc)] = root + 24
           /\ \A i \in 1..Len(full) : full[i] <= root + 24

\* The run of E major pentatonic: 21 pitches from 40 up to 64 and back
C12_Witness ==
    /\ tabPhase = "tab"
    /\ tabKey = <<"E">>
    /\ tabScale = "Major Pentatonic"
    /\ Len(tabRun.full) = 21
    /\ tabRun.full[1] = 40
    /\ tabRun.full[11] = 64
    /\ tabRun.full[21] = 40

\* Every fret of the template, placed at base, lies on the fretboard
FitsAt(tpl, base) ==
    \A s \in 1..6 : \A k \in 1..Len(tpl.frets[s]) : base + tpl.frets[s][k] \in 0..24

\* base is the first candidate at which the template fits, or the root fret
\* brought into 0..24 when it fits at none
IsFirstFit(base, tpl, rootFret) ==
    LET candidates == <<rootFret, rootFret + 12, rootFret - 12>> IN
    \/ \E k \in 1..3 : /\ FitsAt(tpl, candidates[k])
                       /\ base = candidates[k]
                       /\ \A j \in 1..(k - 1) : ~FitsAt(tpl, candidates[j])
    \/ /\ \A k \in 1..3 : ~FitsAt(tpl, candidates[k])
       /\ base \in 0..24
       /\ (rootFret \in 0..24 => base = rootFret)

\* C14: for every key and each of the five templates pickBaseFretForBox
\* returns the first of (root fret, root fret + 12, root fret - 12) at which
\* every template fret lies in [0,24], or the clamped root fret when none
\* fits; it never fails, and every note of every box has its fret in [0,24].
C14_BaseFretFirstFit ==
    /\ tabKey \in Keys => tabPhase # "error"
    /\ tabPhase = "boxes" =>
          /\ Len(tabBases) = 5
          /\ \A i \in 1..5 :
                 IsFirstFit(tabBases[i], MIN_PENT_BOX_TEMPLATES[i],
                            RootPitchOnString6(tabKey) - 40)
          /\ \A b \in 1..Len(tabBoxes) : \A i \in 1..Len(tabBoxes[b].notesData) :
                 tabBoxes[b].notesData[i].fret \in 0..24

\* The boxes of D#, whose root fret is 11: every box is based at fret 11 and
\* the highest box reaches fret 23
C14_Witness ==
    /\ tabPhase = "boxes"
    /\ tabKey = <<"D", "#">>
    /\ tabBases = <<11, 11, 11, 11, 11>>
    /\ \E b \in 1..Len(tabBoxes) : tabBoxes[b].id = 5 /\ tabBoxes[b].maxFret = 23

\* <<min fret, max fret, id>> of a comes no later than that of b
NeckOrder(a, b) ==
    \/ a.minFret < b.minFret
    \/ a.minFret = b.minFret /\ a.maxFret < b.maxFret
    \/ a.minFret = b.minFret /\ a.maxFret = b.maxFret /\ a.id <= b.id

\* C15: for every key generateAllMinorPentBoxes returns exactly five boxes,
\* one per template id, in ascending order of (min fret, max fret, template
\* id); for key A, Box 1 is based at fret 5.
C15_FiveBoxesInNeckOrder ==
    tabPhase = "boxes" =>
        /\ Len(tabBoxes) = 5
        /\ \A id \in 1..5 : Cardinality({b \in 1..5 : tabBoxes[b].id = id}) = 1
        /\ \A a, b \in 1..5 : a < b => NeckOrder(tabBoxes[a], tabBoxes[b])
        /\ \A b \in 1..5 :
               /\ tabBoxes[b].minFret = SetMin({tabBoxes[b].notesData[i].fret :
                                                   i \in 1..Len(tabBoxes[b].notesData)})
               /\ tabBoxes[b].maxFret = SetMax({tabBoxes[b].notesData[i].fret :
                                                   i \in 1..Len(tabBoxes[b].notesData)})
        /\ tabKey = <<"A">> =>
               /\ tabBases[1] = 5
               /\ \E b \in 1..5 : /\ tabBoxes[b].id = 1
                                  /\ tabBoxes[b].notesData[1].string = 6
                                  /\ tabBoxes[b].notesData[1].fret = 5

\* The boxes of A: Box 1 first, over frets 5..8, and Box 5 last
C15_Witness ==
    /\ tabPhase = "boxes"
    /\ tabKey = <<"A">>
    /\ tabBoxes[1].id = 1
    /\ tabBoxes[1].minFret = 5
    /\ tabBoxes[1].maxFret = 8
    /\ tabBoxes[5].id = 5

\* isRoot of the note says whether its position sounds the key
RootFlagDerived(n, keyName) == n.isRoot <=> (NotePc(n) = PC_TO_INDEX[keyName])

\* C16: in every note of every generated fingering sequence (boxes, 3NPS
\* positions, the exact two-octave run) isRoot is true exactly when the pitch
\* class of the string's open pitch plus the fret is the key; the note at the
\* key's root fret on string 6 is a root, for each of the 12 keys.
C16_RootFlagDerived ==
    tabKey \in Keys =>
        /\ \A b \in 1..Len(tabBoxes) : \A i \in 1..Len(tabBoxes[b].notesData) :
               RootFlagDerived(tabBoxes[b].notesData[i], tabKey)
        /\ \A k \in 1..Len(tabPositions) : \A i \in 1..Len(tabPositions[k].notesData) :
               RootFlagDerived(tabPositions[k].notesData[i], tabKey)
        /\ \A i \in 1..Len(tabNotes) : RootFlagDerived(tabNotes[i], tabKey)
        /\ \A b \in 1..Len(tabBoxes) : \A i \in 1..Len(tabBoxes[b].notesData) :
               LET n == tabBoxes[b].notesData[i] IN
               (n.string = 6 /\ n.fret = RootPitchOnString6(tabKey) - 40) => n.isRoot
        /\ \A i \in 1..Len(tabNotes) :
               (tabNotes[i].string = 6 /\ tabNotes[i].fret = RootPitchOnString6(tabKey) - 40)
                   => tabNotes[i].isRoot
        /\ tabPhase = "boxes" =>
               \E b \in 1..Len(tabBoxes) :
                   /\ tabBoxes[b].notesData[1].string = 6
                   /\ tabBoxes[b].notesData[1].fret = RootPitchOnString6(tabKey) - 40
                   /\ tabBoxes[b].notesData[1].isRoot

\* The exact run of G major starts on string 6 at fret 3, a root, and holds
\* a root off string 6 and a note that is no root
C16_Witness ==
    /\ tabPhase = "tab"
    /\ tabKey = <<"G">>
    /\ tabScale = "Major"
    /\ tabNotes[1].string = 6
    /\ tabNotes[1].fret = 3
    /\ tabNotes[1].isRoot
    /\ \E i \in 1..Len(tabNotes) : tabNotes[i].string # 6 /\ tabNotes[i].isRoot
    /\ \E i \in 1..Len(tabNotes) : ~tabNotes[i].isRoot

\* ------------------------------------------------------------------------
\* Properties of the quiz session
\* ------------------------------------------------------------------------

IdleSession ==
    /\ accepting = FALSE
    /\ current = 0
    /\ score = 0
    /\ questions = <<>>
    /\ timerInterval = 0

\* C1: resetQuiz (from the reset button or Play Again) leaves the session
\* Idle, and once Idle the session stays Idle under every step but startQuiz:
\* no callback scheduled earlier changes it.
C1_ResetCancelsCallbacks ==
    [][(\/ lastEvent'.op \in {"resetQuiz", "playAgain"}
        \/ IdleSession /\ lastEvent'.op # "startQuiz") => IdleSession']_vars

NoDuplicates(seq) == \A i, j \in 1..Len(seq) : seq[i] = seq[j] => i = j

\* C2: a submit made while accepting = false leaves score, current index,
\* accepting and the scheduled timers unchanged, and no question of a session
\* is scored twice.
C2_SubmitOnlyWhileAccepting ==
    /\ [][(lastEvent'.op = "submitAnswer" /\ ~accepting) =>
             UNCHANGED <<score, current, accepting, pendingAdvance,
                         liveIntervals, timerInterval>>]_vars
    /\ [](NoDuplicates(answered))

\* A submit was refused during the delay after a correct answer: the field
\* holds the wrong text while the feedback still shows the earlier verdict
C2_Witness ==
    /\ lastEvent.op = "submitAnswer"
    /\ ~accepting
    /\ pendingAdvance = 1
    /\ noteInput = <<"x">>
    /\ feedback = "Correct!"
    /\ score = 1

\* Every question the session has passed was answered (none was skipped)
EveryQuestionAnswered ==
    \A i \in 0..(Min(current, TOTAL_QUESTIONS) - 1) : i \in Range(answered)

\* C3: in a session whose questions were all answered, endQuiz runs only
\* after 10 honored submits, and exactly once.
C3_CompleteAfterTenSubmits ==
    (ended >= 1 /\ EveryQuestionAnswered) =>
        (ended = 1 /\ Len(answered) = TOTAL_QUESTIONS)

\* ---- the high-score ledger

StoredLedger == IF localStorage.kind = "json" THEN localStorage.value ELSE <<>>

Count(seq, e) == Cardinality({i \in 1..Len(seq) : seq[i] = e})

\* new holds the entries of old and the entry e besides, in some order
IsWith(new, old, e) ==
    /\ Len(new) = Len(old) + 1
    /\ \A x \in Range(new) \cup Range(old) \cup {e} :
           Count(new, x) = Count(old, x) + (IF x = e THEN 1 ELSE 0)

\* "YYYY-MM-DD" as the number YYYYMMDD
DateNumber(str) == Number(SelectSeq(str, LAMBDA c : c # "-"))

\* a ranks before b: higher score, or the same score and an earlier date
RanksBefore(a, b) ==
    \/ a.score > b.score
    \/ a.score = b.score /\ DateNumber(a.date) < DateNumber(b.date)

IsRanked(list) == \A i, j \in 1..Len(list) : i < j => ~RanksBefore(list[j], list[i])

\* kept is the list all, ranked, without its last entries beyond the tenth
IsTopTenOf(kept, old, e) ==
    /\ IsRanked(kept)
    /\ IF Len(old) < HIGH_SCORES_KEPT
       THEN IsWith(kept, old, e)
       ELSE \E dropped \in Range(old) \cup {e} :
               /\ IsWith(Append(kept, dropped), old, e)
               /\ \A k \in 1..Len(kept) : ~RanksBefore(dropped, kept[k])

\* C5 as claimed: at the end of a quiz an entry with the final score is
\* appended iff score > 0, and with score 0 the ledger is left unchanged in
\* memory and in the store.
C5_AppendedIffPositive ==
    [][lastEvent'.op = "endQuiz" =>
        IF score = 0
        THEN highScores' = highScores /\ localStorage' = localStorage
        ELSE \E old \in {highScores, StoredLedger, <<>>} :
                IsTopTenOf(highScores', old,
                           [name |-> lastEvent'.name, score |-> score,
                            date |-> lastEvent'.date])]_vars

\* The ledger endQuiz starts from: the store's, or empty when the read fails
Reloaded(readFailed) == IF readFailed THEN <<>> ELSE StoredLedger

\* C5 amended: at the end of a quiz the ledger is reloaded from the store
\* (empty when the read fails); an entry {name, score, date} with the final
\* score is appended to it iff score > 0 (then ranked and cut to ten); with
\* score 0 the store is left unchanged and the ledger in memory is the
\* reloaded one.
C5_AppendedToReloaded ==
    [][lastEvent'.op = "endQuiz" =>
        IF score = 0
        THEN highScores' = Reloaded(lastEvent'.readFailed) /\ localStorage' = localStorage
        ELSE IsTopTenOf(highScores', Reloaded(lastEvent'.readFailed),
                        [name |-> lastEvent'.name, score |-> score,
                         date |-> lastEvent'.date])]_vars

\* A quiz ended with score 0 and left the full ledger as it was
C5_Witness ==
    /\ lastEvent.op = "endQuiz"
    /\ score = 0
    /\ ended = 1
    /\ Len(answered) = TOTAL_QUESTIONS
    /\ highScores = LedgerTen
    /\ localStorage = Json(LedgerTen)

\* C6: the ledger holds at most 10 entries ranked by score descending, then
\* date ascending; when an entry is recorded to a ledger of 10 the entries
\* kept are the first 10 of that order.
C6_LedgerTopTenRanked ==
    /\ [](Len(highScores) <= HIGH_SCORES_KEPT /\ IsRanked(highScores))
    /\ [][(lastEvent'.op = "endQuiz" /\ score > 0) =>
             IsTopTenOf(highScores', Reloaded(lastEvent'.readFailed),
                        [name |-> lastEvent'.name, score |-> score,
                         date |-> lastEvent'.date])]_vars

\* An eleventh entry was recorded and pushed the last entry out
C6_Witness ==
    /\ lastEvent.op = "endQuiz"
    /\ ~lastEvent.threw
    /\ score = 5
    /\ Len(highScores) = HIGH_SCORES_KEPT
    /\ highScores # LedgerTen
    /\ \A k \in 1..HIGH_SCORES_KEPT : highScores[k] # LedgerTen[HIGH_SCORES_KEPT]

\* C7: a failure of the store does not raise out of the completion step, and
\* the high-score panel is shown after it.
C7_StoreFailureNotFatal ==
    lastEvent.op = "endQuiz" => (~lastEvent.threw /\ panelShown)

\* ---- questions and answers

\* The frets lo..hi the select value stands for
RangeIs(lo, hi) == fretRange = FretRangeOption(lo, hi)

\* The strings of a string range, as indices 0 (high E) .. 5 (low E)
StringSubset(sr) ==
    CASE sr = "all" -> 0..5 [] sr = "treble" -> 0..2 [] sr = "bass" -> 3..5

QuestionsWithin(lo, hi) ==
    \A i \in 1..Len(questions) :
        /\ questions[i].stringIdx \in StringSubset(stringRange)
        /\ questions[i].fret \in lo..hi
        /\ questions[i].midi = QUIZ_STRING_OPEN_MIDI[questions[i].stringIdx] + questions[i].fret

Folded(str) == ToUpperCase(SelectSeq(str, LAMBDA c : c \notin {" ", "\t"}))

\* The spelling of the question's pitch that is not among its names
OtherSpelling(q) ==
    IF PC_NAMES_SHARP[(q.midi % 12) + 1] \in Range(q.answerNames)
    THEN PC_NAMES_FLAT[(q.midi % 12) + 1]
    ELSE PC_NAMES_SHARP[(q.midi % 12) + 1]

IsRounded(m, tenths) == 10 * m - 5 <= tenths /\ tenths < 10 * m + 5

\* C13: for an integer click at (x, y) the hit test gives
\* round(71 - (y-70)/10) for 20 <= y <= 120, round(50 - (y-190)/10) for
\* 140 <= y <= 240 and null for every other y, whatever x is; a pitch
\* returned lies in 40..88; y = 70 gives 71, y = 190 gives 50, y = 130 null.
C13_StaffHitTest ==
    finderPhase = "clicked" =>
        /\ IF clickY >= 20 /\ clickY <= 120
           THEN /\ hitMidi # NoPitch
                /\ IsRounded(hitMidi.midi, 710 - (clickY - 70))
                /\ hitMidi.midi \in 40..88
           ELSE IF clickY >= 140 /\ clickY <= 240
           THEN /\ hitMidi # NoPitch
                /\ IsRounded(hitMidi.midi, 500 - (clickY - 190))
                /\ hitMidi.midi \in 40..88
           ELSE hitMidi = NoPitch
        /\ clickY = 70 => hitMidi = Pitch(71)
        /\ clickY = 190 => hitMidi = Pitch(50)
        /\ clickY = 130 => hitMidi = NoPitch

\* A click half a step below the bass centre, away from the left edge,
\* selected pitch 50 (49.5 rounds up)
C13_Witness ==
    /\ finderPhase = "clicked"
    /\ clickX = 450
    /\ clickY = 195
    /\ hitMidi = Pitch(50)
    /\ currentMidi = Pitch(50)

\* ------------------------------------------------------------------------
\* Properties of the note names
\* ------------------------------------------------------------------------

\* The pitch classes of the white keys and their letters
NaturalPcs == {0, 2, 4, 5, 7, 9, 11}

NaturalLetter(pc) ==
    CASE pc = 0 -> "C" [] pc = 2 -> "D" [] pc = 4 -> "E" [] pc = 5 -> "F"
      [] pc = 7 -> "G" [] pc = 9 -> "A" [] pc = 11 -> "B"

\* An accidental pitch is the natural below it raised, or the one above lowered
SharpSpelling(pc) == <<NaturalLetter((pc + 11) % 12), "#">>
FlatSpelling(pc) == <<NaturalLetter((pc + 1) % 12), "b">>

\* The names a player may answer with for the pitch, given the two checkboxes
AcceptableNames(midi, flats, sharps) ==
    LET pc == ((midi % 12) + 12) % 12 IN
    IF pc \in NaturalPcs THEN {<<NaturalLetter(pc)>>}
    ELSE IF flats /\ sharps THEN {SharpSpelling(pc), FlatSpelling(pc)}
    ELSE IF flats THEN {FlatSpelling(pc)}
    ELSE IF sharps THEN {SharpSpelling(pc)}
    ELSE {}

\* C17: pcNameFromMidi(midi, flats, sharps) returns the acceptable names of
\* the pitch: with both flags both spellings of an accidental pitch and the
\* one natural name of a natural pitch, with only flats the flat spelling,
\* with only sharps the sharp spelling, with neither flag the natural name of
\* a natural pitch.
C17_AcceptableNames ==
    \A i \in 1..Len(questions) :
        LET q  == questions[i]
            pc == q.midi % 12
        IN /\ (acceptFlats /\ acceptSharps /\ pc \notin NaturalPcs) =>
                  Range(q.answerNames) = {SharpSpelling(pc), FlatSpelling(pc)}
           /\ (acceptFlats /\ acceptSharps /\ pc \in NaturalPcs) =>
                  Range(q.answerNames) = {<<NaturalLetter(pc)>>}
           /\ (acceptFlats /\ ~acceptSharps) =>
                  q.answerNames = <<IF pc \in NaturalPcs THEN <<NaturalLetter(pc)>>
                                    ELSE FlatSpelling(pc)>>
           /\ (~acceptFlats /\ acceptSharps) =>
                  q.answerNames = <<IF pc \in NaturalPcs THEN <<NaturalLetter(pc)>>
                                    ELSE SharpSpelling(pc)>>
           /\ (~acceptFlats /\ ~acceptSharps /\ pc \in NaturalPcs) =>
                  q.answerNames = << <<NaturalLetter(pc)>> >>
           /\ Range(q.answerNames) = AcceptableNames(q.midi, acceptFlats, acceptSharps)

\* Questions built with both boxes ticked: one on an accidental pitch with
\* its two spellings, one on a natural pitch with its one name
C17_Witness ==
    /\ acceptFlats /\ acceptSharps
    /\ \E i \in 1..Len(questions) :
           questions[i].answerNames = << <<"F", "#">>, <<"G", "b">> >>
    /\ \E i \in 1..Len(questions) : Range(questions[i].answerNames) = {<<"E">>}

\* C18: for every integer MIDI value m, negative ones included,
\* noteNameFromMidi(m) gives the name of the pitch class
\* pc = ((m mod 12) + 12) mod 12, which lies in 0..11, and
\* octave = floor(m / 12) - 1, and the pair leads back to m:
\* 12 * (octave + 1) + pc = m.
C18_NameOctaveRoundTrip ==
    finderPhase = "displayed" =>
        LET m      == noteInfo.midi
            octave == noteInfo.octave
            pc     == PC_TO_INDEX[noteName]
        IN /\ currentMidi = Pitch(m)
           /\ noteName \in Keys
           /\ pc \in 0..11
           /\ \E k \in (0 - MaxMidiInput)..MaxMidiInput : m = 12 * k + pc
           /\ 12 * (octave + 1) <= m
           /\ m < 12 * (octave + 1) + 12
           /\ 12 * (octave + 1) + pc = m

\* MIDI -13 displayed: B in octave -3
C18_Witness ==
    /\ finderPhase = "displayed"
    /\ noteInfo.midi = 0 - 13
    /\ noteName = <<"B">>
    /\ noteInfo.octave = 0 - 3

\* ------------------------------------------------------------------------
\* Properties of a restarted session
\* ------------------------------------------------------------------------

\* C19: startQuiz, called in any reachable state (the auto-advance delay of
\* an earlier answer included), leaves the session on question index 0 with
\* accepting true and score 0, and the session stays on index 0 until an
\* answer to that question is submitted.
C19_RestartStaysOnFirstQuestion ==
    /\ [][lastEvent'.op = "startQuiz" =>
             (current' = 0 /\ accepting' /\ score' = 0)]_vars
    /\ []((questions # <<>> /\ answered = <<>>) => current = 0)

\* ------------------------------------------------------------------------
\* Properties of the score
\* ------------------------------------------------------------------------

\* The step is a submit that was honored and scored a question
ScoringSubmit ==
    /\ lastEvent'.op = "submitAnswer"
    /\ ~lastEvent'.threw
    /\ accepting
    /\ answered' = Append(answered, current)

\* C20: each honored submit changes score by +1 when the answer is correct
\* and by 0 otherwise, and nothing else changes score except a start or a
\* reset, which set it to 0; so in every reachable state
\* 0 <= score <= number of answers submitted in this session <= 10.
C20_ScoreCountsCorrectAnswers ==
    /\ [][ScoringSubmit =>
             score' = score + (IF isCorrect(questions[current + 1], noteInput',
                                            acceptFlats', acceptSharps')
                               THEN 1 ELSE 0)]_vars
    /\ [][score' # score =>
             \/ ScoringSubmit /\ score' = score + 1 /\ feedback' = "Correct!"
             \/ /\ lastEvent'.op \in {"startQuiz", "resetQuiz", "playAgain"}
                /\ score' = 0]_vars
    /\ [](/\ 0 <= score
          /\ score <= Len(answered)
          /\ Len(answered) <= TOTAL_QUESTIONS)

\* Two answers submitted in the session, the second one correct and the
\* other one not
C20_Witness ==
    /\ lastEvent.op = "submitAnswer"
    /\ feedback = "Correct!"
    /\ Len(answered) = 2
    /\ score = 1

\* ------------------------------------------------------------------------
\* Properties of the fingering sequences
\* ------------------------------------------------------------------------

FretsOf(notes) == {notes[i].fret : i \in 1..Len(notes)}

\* C21: the positions returned by generate3NPSPositionsForScale have
\* pairwise distinct (minFret, maxFret) pairs and are in ascending order of
\* (minFret, maxFret), minFret and maxFret being the smallest and the largest
\* fret among the notes of the position.
C21_PositionsDistinctAscending ==
    tabPhase = "positions" =>
        /\ \A k \in 1..Len(tabPositions) :
               /\ tabPositions[k].minFret = SetMin(FretsOf(tabPositions[k].notesData))
               /\ tabPositions[k].maxFret = SetMax(FretsOf(tabPositions[k].notesData))
        /\ \A i, j \in 1..Len(tabPositions) :
               i # j => <<tabPositions[i].minFret, tabPositions[i].maxFret>>
                          # <<tabPositions[j].minFret, tabPositions[j].maxFret>>
        /\ \A i, j \in 1..Len(tabPositions) :
               i < j => \/ tabPositions[i].minFret < tabPositions[j].minFret
                        \/ /\ tabPositions[i].minFret = tabPositions[j].minFret
                           /\ tabPositions[i].maxFret <= tabPositions[j].maxFret

\* The positions of E Major: at least three, the first from the open strings
C21_Witness ==
    /\ tabPhase = "positions"
    /\ tabKey = <<"E">>
    /\ tabScale = "Major"
    /\ Len(tabPositions) >= 3
    /\ tabPositions[1].minFret = 0

\* seq is n notes going up followed by the same notes, without the last one,
\* coming down
IsUpThenDown(seq) ==
    LET n == (Len(seq) + 1) \div 2 IN
    /\ Len(seq) = 2 * n - 1
    /\ \A i \in 1..Len(seq) : seq[i] = seq[Len(seq) + 1 - i]
    /\ \A i \in 1..(n - 1) : seq[n + i] = seq[n - i]
    /\ {i \in 1..Len(seq) : seq[i] = seq[n]} = {n}
    /\ seq[Len(seq)] = seq[1]

\* C22: every up-then-down sequence (box, 3NPS position, exact run) is its
\* ascending list of n notes followed by the reverse of that list without
\* its last note: its length is 2n-1, it reads the same in both directions,
\* it holds the top note once, in the middle, and it ends on its first note.
C22_UpThenDown ==
    /\ \A b \in 1..Len(tabBoxes) :
           /\ Len(tabBoxes[b].notesData) = 23
           /\ IsUpThenDown(tabBoxes[b].notesData)
    /\ \A k \in 1..Len(tabPositions) :
           /\ Len(tabPositions[k].notesData) = 35
           /\ IsUpThenDown(tabPositions[k].notesData)
    /\ (tabPhase = "tab" /\ tabScale \in ScaleNames) =>
           /\ tabRun.full = tabRun.up \o Reverse(DropLast(tabRun.up))
           /\ IsUpThenDown(tabRun.full)

\* The run of A Minor Pentatonic: 11 pitches up from 45 to 69, 10 down
C22_Witness ==
    /\ tabPhase = "tab"
    /\ tabKey = <<"A">>
    /\ tabScale = "Minor Pentatonic"
    /\ Len(tabRun.up) = 11
    /\ Len(tabRun.full) = 21
    /\ tabRun.full[11] = 69
    /\ tabRun.full[12] = tabRun.full[10]

\* ------------------------------------------------------------------------
\* Properties of the fingering of the exact run
\* ------------------------------------------------------------------------

\* Ten times 1.2 * |fret jump| + 2.2 * |string jump| + (2 when the string
\* number goes up), in exact arithmetic
ExactCostTenths(prev, c) ==
    IF prev = NullPosition THEN 0
    ELSE 12 * (IF c.fret >= prev.fret THEN c.fret - prev.fret ELSE prev.fret - c.fret)
         + 22 * (IF c.string >= prev.string THEN c.string - prev.string
                 ELSE prev.string - c.string)
         + (IF c.string > prev.string THEN 20 ELSE 0)

\* C23: chooseBestPosition returns a candidate of minimal cost
\* 1.2*|fret - prev.fret| + 2.2*|string - prev.string| + (2 if string >
\* prev.string else 0); of several candidates of that cost it returns the one
\* enumerated first, the candidates coming in descending order of string
\* number; with no previous position it returns the candidate on the
\* highest-numbered string, which for the first pitch of a run (a pitch of
\* frets 0..11 of string 6) is on string 6.
C23_LeastCostFirstWins ==
    walkCandidates # <<>> =>
        /\ \A i, j \in 1..Len(walkCandidates) :
               i < j => walkCandidates[i].string > walkCandidates[j].string
        /\ \E k \in 1..Len(walkCandidates) :
               /\ walkChosen = walkCandidates[k]
               /\ \A j \in 1..Len(walkCandidates) :
                      ExactCostTenths(walkPrev, walkCandidates[k])
                          <= ExactCostTenths(walkPrev, walkCandidates[j])
               /\ \A j \in 1..(k - 1) :
                      ExactCostTenths(walkPrev, walkCandidates[k])
                          < ExactCostTenths(walkPrev, walkCandidates[j])
        /\ walkPrev = NullPosition =>
               /\ walkChosen = walkCandidates[1]
               /\ \A j \in 1..Len(walkCandidates) :
                      walkChosen.string >= walkCandidates[j].string
               /\ (STRING_OPEN_MIDI[walkChosen.string] + walkChosen.fret
                      \in STRING_OPEN_MIDI[6]..(STRING_OPEN_MIDI[6] + 11))
                   => walkChosen.string = 6

\* From fret 14 of string 2 to the B below: fret 14 of string 5, the second
\* of five candidates, costs least
C23_Witness ==
    /\ walkPrev = [string |-> 2, fret |-> 14]
    /\ Len(walkCandidates) = 5
    /\ walkCandidates[1] = [string |-> 6, fret |-> 19]
    /\ walkChosen = [string |-> 5, fret |-> 14]

\* ------------------------------------------------------------------------
\* Properties of the open question and the timer
\* ------------------------------------------------------------------------

\* C24: in every reachable state of the quiz, accepting = true implies
\* current < 10 and questions[current] exists, so that an honored submit
\* always has an open question to evaluate.
C24_AcceptingHasQuestion ==
    accepting => (current < TOTAL_QUESTIONS /\ current + 1 <= Len(questions))

\* C25: every question produced by buildQuestions has a non-empty set of
\* acceptable answer names, for every pitch and every combination of the
\* accept-flats and accept-sharps flags, so that every question can be
\* answered correctly.
C25_EveryQuestionHasNames ==
    \A i \in 1..Len(questions) : questions[i].answerNames # <<>>

\* C27: after any sequence of start, submit, reset and timer events at most
\* one quiz timer interval is running, and none is running while accepting
\* is false.
C27_OneTimerWhileAccepting ==
    /\ Cardinality(liveIntervals) <= 1
    /\ ~accepting => liveIntervals = {}

\* ------------------------------------------------------------------------
\* Properties of what the tab page renders
\* ------------------------------------------------------------------------

\* C29: for each of the 12 keys and each scale of the table other than
\* Minor Pentatonic, generate3NPSPositionsForScale returns at least one
\* position, so renderApp never raises 'No 3NPS positions found' for a
\* selectable key and scale.
C29_SomePositionForEveryScale ==
    (/\ tabPhase = "positions"
     /\ tabKey \in Keys
     /\ tabScale \in ScaleNames \ {"Minor Pentatonic"}) => Len(tabPositions) >= 1

\* The positions of D# Major Pentatonic: two, the lower one from fret 15
C29_Witness ==
    /\ tabPhase = "positions"
    /\ tabKey = <<"D", "#">>
    /\ tabScale = "Major Pentatonic"
    /\ Len(tabPositions) = 2
    /\ tabPositions[1].minFret = 15

\* C30: for every key and every scale of the table, mapMidiToTabNotes
\* applied to the two-octave run emits exactly one note per pitch of the run,
\* in the same order (no pitch is skipped), and each emitted (string, fret)
\* has its fret in [0,24] and sounds that very pitch: open pitch of the
\* string + fret = pitch.
C30_OneNotePerPitch ==
    (tabPhase = "tab" /\ tabKey \in Keys /\ tabScale \in ScaleNames) =>
        /\ Len(tabNotes) = Len(tabRun.full)
        /\ \A i \in 1..Len(tabNotes) :
               /\ tabNotes[i].string \in 1..6
               /\ tabNotes[i].fret \in 0..24
               /\ STRING_OPEN_MIDI[tabNotes[i].string] + tabNotes[i].fret = tabRun.full[i]
        /\ tabNotes[1].string = 6

\* The run of E Major fingered: 29 notes, from the open string 6 up to the
\* E two octaves above and back
C30_Witness ==
    /\ tabPhase = "tab"
    /\ tabKey = <<"E">>
    /\ tabScale = "Major"
    /\ Len(tabNotes) = 29
    /\ tabNotes[1] = [string |-> 6, fret |-> 0, isRoot |-> TRUE]
    /\ STRING_OPEN_MIDI[tabNotes[15].string] + tabNotes[15].fret = 64
    /\ tabNotes[29].fret = 0

\* ------------------------------------------------------------------------
\* Properties of the chord playback
\* ------------------------------------------------------------------------

\* C26: in the chord note finder, after any sequence of fret/string clicks
\* and play-button clicks, isPlaying = true implies that the pitches sounding
\* in the audio engine are exactly the pitches of the chord notes selected
\* (at most one per string); when the last selected note is toggled off,
\* nothing keeps sounding.
C26_SoundIsTheChord ==
    /\ chordIsPlaying =>
           /\ oscillators = getChordMidisLowToHigh(chordSelections)
           /\ Len(oscillators) <= 6
    /\ chordSelections = NoChord => oscillators = <<>>

\* ------------------------------------------------------------------------
\* Properties of the sequence player
\* ------------------------------------------------------------------------

\* The pitch of the k-th note started since playSequence, counting round
\* the sequence
PitchInTurn(k) ==
    LET note == currentSequence[((k - 1) % Len(currentSequence)) + 1]
    IN STRING_OPEN_MIDI[note.string] + note.fret

\* C28: in the sequence player of the tab page, after any sequence of
\* playSequence and stopPlayback calls and timer firings, at most one
\* playback timer is pending; after stopPlayback no note is started until
\* the next playSequence; and while playing, the notes are started in the
\* order of the sequence, the first note following the last.
C28_OneTimerNotesInOrder ==
    /\ [](Cardinality(pendingTimers) <= 1)
    /\ [](~playerIsPlaying => pendingTimers = {})
    /\ [][startedNotes' # startedNotes =>
             /\ playerIsPlaying'
             /\ playerEvent' = "playSequence" \/ (playerEvent' = "timer" /\ playerIsPlaying)]_vars
    /\ [](playerIsPlaying =>
             /\ pendingTimers = {playbackTimer}
             /\ Len(startedNotes) >= 1
             /\ \A k \in 1..Len(startedNotes) : startedNotes[k] = PitchInTurn(k)
             /\ currentIndex = Len(startedNotes) % Len(currentSequence))

\* The three-note sequence playing, its first note started a second time
\* after its last
C28_Witness ==
    /\ playerIsPlaying
    /\ Len(currentSequence) = 3
    /\ Len(startedNotes) = 4
    /\ startedNotes[4] = startedNotes[1]
    /\ startedNotes[3] = 52
    /\ currentIndex = 1
    /\ Cardinality(pendingTimers) = 1

====
